---- MODULE Spec2Model ----
(***************************************************************************)
(* The spreadsheet formula resolver of core/parser.py                      *)
(* (_resolve_xlsm_formulas and its nested helpers), as a state machine.    *)
(*                                                                         *)
(* Formula texts are TLA+ strings, taken apart character by character the  *)
(* way the Python code does it: every regular expression of the source is  *)
(* written out as a pattern and run by a backtracking matcher with         *)
(* Python's preference order (greedy / lazy quantifiers, optional groups,  *)
(* alternations), and the str methods (strip, replace, split, upper, ...)  *)
(* are operators over strings.                                             *)
(*                                                                         *)
(* Python values are tagged records: None, int, float and str.  A float is *)
(* a decimal fixed-point number with FloatPlaces places; the workbooks of  *)
(* the model hold only numbers whose quotients and roundings are exact in  *)
(* that representation.  Newlines, bool and datetime cell values are       *)
(* outside the model's value domain.                                       *)
(***************************************************************************)
EXTENDS Integers, Sequences, FiniteSets, TLC

VARIABLES
  wb_formulas,      \* the source workbook loaded with data_only=False
  wb_cached,        \* the source workbook loaded with data_only=True
  cell_values,      \* the CellStore: (sheet, coordinate) -> value
  formula_cells,    \* the outstanding list: <<sheet, coordinate, formula>>
  remaining,        \* the cells of this pass that did not resolve
  newly_resolved,   \* how many cells this pass resolved
  pass_num,         \* the pass under way, from 0
  cell_idx,         \* position of the pass in formula_cells
  unresolved_count, \* the tally logged after the passes
  wb_out,           \* the workbook written
  pc,               \* where the run is
  raised,           \* the exception that ended the run, "" if none
  run_no,           \* 1: the run on the source, 2: the run on its own output
  first_out,        \* the output of run 1, kept while run 2 goes on
  evals,            \* per outstanding cell, how often the evaluator was called
  call,             \* the last call of a range operation (specification SpecOps)
  conv,             \* parse_excel_to_markdown under way (specification SpecParse)
  prior             \* the source and the results of run 1, kept for the later runs

vars == <<wb_formulas, wb_cached, cell_values, formula_cells, remaining,
          newly_resolved, pass_num, cell_idx, unresolved_count, wb_out, pc, raised,
          run_no, first_out, evals, call, conv, prior>>

(***************************************************************************)
(* Characters and strings                                                  *)
(***************************************************************************)
UpperChars == "ABCDEFGHIJKLMNOPQRSTUVWXYZ"
LowerChars == "abcdefghijklmnopqrstuvwxyz"
DigitChars == "0123456789"

CharAt(s, i) == SubSeq(s, i, i)

CharSet(s) == {CharAt(s, i) : i \in 1..Len(s)}

\* 1-based position of the one-character string c in s, 0 when absent.
IndexIn(c, s) ==
  IF \E i \in 1..Len(s) : CharAt(s, i) = c
  THEN CHOOSE i \in 1..Len(s) : CharAt(s, i) = c
  ELSE 0

IsUpper(c) == c \in CharSet(UpperChars)
IsLower(c) == c \in CharSet(LowerChars)
IsDigit(c) == c \in CharSet(DigitChars)
IsSpace(c) == c = " "

\* str.upper() on one character
UpperChar(c) == IF IsLower(c) THEN CharAt(UpperChars, IndexIn(c, LowerChars)) ELSE c

RECURSIVE MapChars(_, _, _)
\* the characters lo..hi of s in upper case, joined again
MapChars(s, lo, hi) ==
  IF lo > hi THEN ""
  ELSE IF lo = hi THEN UpperChar(CharAt(s, lo))
  ELSE MapChars(s, lo, (lo + hi) \div 2) \o MapChars(s, ((lo + hi) \div 2) + 1, hi)

\* str.lower() on one character
LowerChar(c) == IF IsUpper(c) THEN CharAt(LowerChars, IndexIn(c, UpperChars)) ELSE c

RECURSIVE Lower(_)
\* str.lower()
Lower(s) == IF s = "" THEN "" ELSE LowerChar(Head(s)) \o Lower(Tail(s))

\* str.upper()
Upper(s) == MapChars(s, 1, Len(s))

\* s.startswith(p), s.endswith(p), p in s
StartsWith(s, p) == Len(s) >= Len(p) /\ SubSeq(s, 1, Len(p)) = p
EndsWith(s, p) == Len(s) >= Len(p) /\ SubSeq(s, Len(s) - Len(p) + 1, Len(s)) = p
Contains(s, p) == \E i \in 1..(Len(s) - Len(p) + 1) : SubSeq(s, i, i + Len(p) - 1) = p

\* s.lstrip(chars): s from its first character outside cs on
LStripSet(s, cs) ==
  LET keep == {i \in 1..Len(s) : CharAt(s, i) \notin cs}
  IN IF keep = {} THEN ""
     ELSE SubSeq(s, CHOOSE i \in keep : \A j \in keep : i <= j, Len(s))

\* s.rstrip(chars): s up to its last character outside cs
RStripSet(s, cs) ==
  LET keep == {i \in 1..Len(s) : CharAt(s, i) \notin cs}
  IN IF keep = {} THEN ""
     ELSE SubSeq(s, 1, CHOOSE i \in keep : \A j \in keep : i >= j)

\* s.strip(chars)
StripSet(s, cs) == RStripSet(LStripSet(s, cs), cs)

\* s.strip()
Strip(s) == StripSet(s, {" "})

RECURSIVE DropChars(_, _, _, _)
\* the characters lo..hi of s other than c, joined again
DropChars(s, c, lo, hi) ==
  IF lo > hi THEN ""
  ELSE IF lo = hi THEN (IF CharAt(s, lo) = c THEN "" ELSE CharAt(s, lo))
  ELSE DropChars(s, c, lo, (lo + hi) \div 2) \o DropChars(s, c, ((lo + hi) \div 2) + 1, hi)

\* s.replace(c, '')
RemoveChar(s, c) == DropChars(s, c, 1, Len(s))

\* position of the first c in s, 0 when absent
FirstIndex(s, c) ==
  IF \E i \in 1..Len(s) : CharAt(s, i) = c
  THEN CHOOSE i \in 1..Len(s) : CharAt(s, i) = c /\ \A j \in 1..(i - 1) : CharAt(s, j) # c
  ELSE 0

RECURSIVE Split(_, _)
\* s.split(c): the sequence of the pieces of s between the occurrences of c
Split(s, c) ==
  LET i == FirstIndex(s, c)
  IN IF i = 0 THEN <<s>>
     ELSE <<SubSeq(s, 1, i - 1)>> \o Split(SubSeq(s, i + 1, Len(s)), c)

(***************************************************************************)
(* Regular expressions (Python's re.match: anchored at the start, with     *)
(* backtracking in preference order).  A pattern is a sequence of items:   *)
(*   Ch(cls, lo, hi, lazy)  a character class repeated lo..hi times        *)
(*                          (hi = Inf for no upper limit)                  *)
(*   Lit(str)               a literal text, compared without regard to     *)
(*                          case (every pattern holding letters is         *)
(*                          compiled with re.IGNORECASE, see ClsUpper)     *)
(*   Open(g), Close(g)      the parentheses of capture group g             *)
(*   Opt(sub)               (sub)?      Alt(subs)   (?:sub1|sub2|...)      *)
(*   End                    $                                              *)
(***************************************************************************)
Inf == 0 - 1

ClsAny == "any"          \* .
ClsWs == "ws"            \* \s
ClsDigit == "digit"      \* \d
ClsAlpha == "alpha"      \* [A-Z] under re.IGNORECASE, [A-Za-z]
ClsUpper == "upper"      \* [A-Z] without re.IGNORECASE
ClsSheet == "sheet"      \* [^=+\-*/()]
ClsQuote == "quote"      \* '
ClsDollar == "dollar"    \* \$

InClass(c, cls) ==
  CASE cls = ClsAny -> TRUE
    [] cls = ClsWs -> IsSpace(c)
    [] cls = ClsDigit -> IsDigit(c)
    [] cls = ClsAlpha -> IsUpper(c) \/ IsLower(c)
    [] cls = ClsUpper -> IsUpper(c)
    [] cls = ClsSheet -> c \notin {"=", "+", "-", "*", "/", "(", ")"}
    [] cls = ClsQuote -> c = "'"
    [] cls = ClsDollar -> c = "$"

Ch(cls, lo, hi, lazy) == [k |-> "ch", cls |-> cls, lo |-> lo, hi |-> hi, lazy |-> lazy]
Lit(str) == [k |-> "lit", v |-> str]
Open(g) == [k |-> "open", g |-> g]
Close(g) == [k |-> "close", g |-> g]
Opt(sub) == [k |-> "opt", sub |-> sub]
Alt(subs) == [k |-> "alt", subs |-> subs]
End == [k |-> "end"]

Star(cls) == Ch(cls, 0, Inf, FALSE)       \* cls*
Plus(cls) == Ch(cls, 1, Inf, FALSE)       \* cls+
LazyPlus(cls) == Ch(cls, 1, Inf, TRUE)    \* cls+?
Maybe(cls) == Ch(cls, 0, 1, FALSE)        \* cls?

NoMatch == [ok |-> FALSE, g |-> <<>>, has |-> <<>>]
NoGroup == <<0, 0>>

\* how many characters of s from pos on are in cls, at most hi of them
RunLen(s, pos, cls, hi) ==
  LET left == Len(s) - pos + 1
      limit == IF hi = Inf \/ hi > left THEN left ELSE hi
      stops == {n \in 0..(limit - 1) : ~InClass(CharAt(s, pos + n), cls)}
  IN IF stops = {} THEN limit ELSE CHOOSE n \in stops : \A k \in stops : n <= k

\* the value of a one-element set: First({e : x \in {v}}) is e with x bound to
\* the value of v, worked out once
First(S) == CHOOSE x \in S : TRUE

\* The matcher keeps the partial matches ("threads", a position and the groups
\* captured so far) in the order in which a backtracking matcher would try
\* them; the first thread that survives the whole pattern is re.match's result.
RECURSIVE ReRun(_, _, _, _, _)
RECURSIVE ReSpread(_, _, _, _, _)
RECURSIVE ReItem(_, _, _)
RECURSIVE ReAlt(_, _, _, _)

\* the threads L after the items re[lo..hi]
ReRun(L, re, s, lo, hi) ==
  IF lo > hi \/ L = <<>> THEN L
  ELSE IF lo = hi THEN ReSpread(L, re[lo], s, 1, Len(L))
  ELSE LET mid == (lo + hi) \div 2
       IN First({ReRun(x, re, s, mid + 1, hi) : x \in {ReRun(L, re, s, lo, mid)}})

\* the successors at item it of the threads L[lo..hi], in order
ReSpread(L, it, s, lo, hi) ==
  IF lo > hi THEN <<>>
  ELSE IF lo = hi THEN ReItem(L[lo], it, s)
  ELSE LET mid == (lo + hi) \div 2
       IN ReSpread(L, it, s, lo, mid) \o ReSpread(L, it, s, mid + 1, hi)

\* the successors of thread t at item it, in preference order
ReItem(t, it, s) ==
  CASE it.k = "open" -> <<[t EXCEPT !.caps[it.g] = <<t.pos, t.pos - 1>>]>>
    [] it.k = "close" -> <<[t EXCEPT !.caps[it.g] = <<t.caps[it.g][1], t.pos - 1>>]>>
    [] it.k = "end" -> IF t.pos = Len(s) + 1 THEN <<t>> ELSE <<>>
    [] it.k = "lit" ->
         IF t.pos + Len(it.v) - 1 <= Len(s)
            /\ Upper(SubSeq(s, t.pos, t.pos + Len(it.v) - 1)) = Upper(it.v)
         THEN <<[t EXCEPT !.pos = t.pos + Len(it.v)]>>
         ELSE <<>>
    [] it.k = "opt" -> ReRun(<<t>>, it.sub, s, 1, Len(it.sub)) \o <<t>>
    [] it.k = "alt" -> ReAlt(t, it.subs, s, 1)
    [] it.k = "ch" ->
         LET run == RunLen(s, t.pos, it.cls, it.hi)
         IN IF run < it.lo THEN <<>>
            ELSE [k \in 1..(run - it.lo + 1) |->
                    [t EXCEPT !.pos = t.pos + (IF it.lazy THEN it.lo + k - 1
                                                ELSE run - k + 1)]] \o <<>>

\* the alternatives subs[i], subs[i+1], ... in turn
ReAlt(t, subs, s, i) ==
  IF i > Len(subs) THEN <<>>
  ELSE ReRun(<<t>>, subs[i], s, 1, Len(subs[i])) \o ReAlt(t, subs, s, i + 1)

\* the text of a group captured at cap, None (here "") when it took no part
GroupText(s, cap) == IF cap = NoGroup THEN "" ELSE SubSeq(s, cap[1], cap[2])

\* the match object of the first thread of L: ok, the text g[i] of every group
\* (m.group(i)) and whether the group took part (has[i])
MatchObject(L, ng, s) ==
  IF L = <<>> THEN NoMatch
  ELSE [ok |-> TRUE,
        g |-> [i \in 1..ng |-> GroupText(s, L[1].caps[i])] \o <<>>,
        has |-> [i \in 1..ng |-> L[1].caps[i] # NoGroup] \o <<>>]

\* re.match(re, s) for a pattern with ng capture groups.  (x \in {e} binds x to
\* the value of e, so that e is worked out once.)
Match(re, ng, s) ==
  First({First({MatchObject(L, ng, t) :
                  L \in {ReRun(<<[pos |-> 1, caps |-> [i \in 1..ng |-> NoGroup] \o <<>>]>>,
                               r, t, 1, Len(r))}}) :
           r \in {re}, t \in {s}})

(***************************************************************************)
(* Python values                                                           *)
(***************************************************************************)
\* decimal places kept by the model's floats
FloatPlaces == 4

RECURSIVE Pow10(_)
Pow10(n) == IF n = 0 THEN 1 ELSE 10 * Pow10(n - 1)

FloatOne == Pow10(FloatPlaces)

NoneV == [t |-> "none", v |-> 0, s |-> ""]
IntV(n) == [t |-> "int", v |-> n, s |-> ""]
StrV(s) == [t |-> "str", v |-> 0, s |-> s]
\* the float m / 10^FloatPlaces
FloatV(m) == [t |-> "float", v |-> m, s |-> ""]
\* an exception on its way up the call stack
RaiseV(exc) == [t |-> "raise", v |-> 0, s |-> exc]

IsNone(val) == val.t = "none"
IsRaise(val) == val.t = "raise"
IsStr(val) == val.t = "str"

RECURSIVE NatToStr(_)
NatToStr(n) ==
  IF n < 10 THEN CharAt(DigitChars, n + 1)
  ELSE NatToStr(n \div 10) \o CharAt(DigitChars, (n % 10) + 1)

RECURSIVE PadLeft(_, _)
PadLeft(s, n) == IF Len(s) >= n THEN s ELSE PadLeft("0" \o s, n)

\* repr of a float: at least one decimal, no trailing zeros after it
FloatToStr(m) ==
  LET a == IF m < 0 THEN 0 - m ELSE m
      frac == RStripSet(PadLeft(NatToStr(a % FloatOne), FloatPlaces), {"0"})
  IN (IF m < 0 THEN "-" ELSE "") \o NatToStr(a \div FloatOne) \o "."
       \o (IF frac = "" THEN "0" ELSE frac)

\* str(val)
PyStr(val) ==
  CASE val.t = "none" -> "None"
    [] val.t = "int" -> (IF val.v < 0 THEN "-" \o NatToStr(0 - val.v) ELSE NatToStr(val.v))
    [] val.t = "float" -> FloatToStr(val.v)
    [] val.t = "str" -> val.s

AllDigits(s) == s # "" /\ \A i \in 1..Len(s) : IsDigit(CharAt(s, i))

RECURSIVE DigitsToNat(_)
DigitsToNat(s) ==
  IF s = "" THEN 0
  ELSE 10 * DigitsToNat(SubSeq(s, 1, Len(s) - 1)) + (IndexIn(CharAt(s, Len(s)), DigitChars) - 1)

\* the text of a number without its sign, and the sign
Unsigned(s) == IF s # "" /\ CharAt(s, 1) \in {"+", "-"} THEN Tail(s) ELSE s
SignOf(s) == IF s # "" /\ CharAt(s, 1) = "-" THEN 0 - 1 ELSE 1

\* int(s) for a str s: [ok |-> FALSE] stands for ValueError
PyIntOfStr(s) ==
  LET u == Unsigned(Strip(s))
  IN IF AllDigits(u) THEN [ok |-> TRUE, v |-> SignOf(Strip(s)) * DigitsToNat(u)]
     ELSE [ok |-> FALSE]

\* float(s) for a str s of the form [sign] digits [. digits], with at most
\* FloatPlaces decimals; [ok |-> FALSE] stands for ValueError
PyFloatOfStr(s) ==
  LET t == Strip(s)
      u == Unsigned(t)
      dot == FirstIndex(u, ".")
      ip == IF dot = 0 THEN u ELSE SubSeq(u, 1, dot - 1)
      fp == IF dot = 0 THEN "" ELSE SubSeq(u, dot + 1, Len(u))
  IN IF (ip = "" \/ AllDigits(ip)) /\ (fp = "" \/ AllDigits(fp)) /\ (ip \o fp) # ""
        /\ Len(fp) <= FloatPlaces
     THEN [ok |-> TRUE,
           v |-> SignOf(t) * (DigitsToNat(ip) * FloatOne
                              + DigitsToNat(fp) * Pow10(FloatPlaces - Len(fp)))]
     ELSE [ok |-> FALSE]

\* float(val): [ok |-> FALSE] stands for ValueError (a str that is no number) and
\* TypeError (None), which every caller catches together
PyFloat(val) ==
  CASE val.t = "int" -> [ok |-> TRUE, v |-> val.v * FloatOne]
    [] val.t = "float" -> [ok |-> TRUE, v |-> val.v]
    [] val.t = "str" -> PyFloatOfStr(val.s)
    [] OTHER -> [ok |-> FALSE]

\* round(x, decimals) of the float x = m / 10^FloatPlaces: to the nearest, ties to even
PyRound(m, decimals) ==
  IF decimals >= FloatPlaces THEN m
  ELSE LET unit == Pow10(FloatPlaces - decimals)
           q == m \div unit
           r == m % unit
       IN IF 2 * r > unit \/ (2 * r = unit /\ q % 2 = 1) THEN (q + 1) * unit ELSE q * unit

\* x / divisor of the float x = m / 10^FloatPlaces, for divisor # 0 (to the nearest
\* representable float)
PyDiv(m, divisor) == (2 * m + divisor) \div (2 * divisor)

\* val == 0 and val == "" of Python
EqZero(val) == val.t \in {"int", "float"} /\ val.v = 0
EqEmptyStr(val) == val.t = "str" /\ val.s = ""

(***************************************************************************)
(* The patterns of core/parser.py                                          *)
(***************************************************************************)
\* \$?[A-Z]+\$?\d+:\$?[A-Z]+\$?\d+
ReRangeTail ==
  <<Maybe(ClsDollar), Plus(ClsAlpha), Maybe(ClsDollar), Plus(ClsDigit), Lit(":"),
    Maybe(ClsDollar), Plus(ClsAlpha), Maybe(ClsDollar), Plus(ClsDigit)>>

\* '.+?'!\$?[A-Z]+\$?\d+:\$?[A-Z]+\$?\d+
ReQuotedRange == <<Lit("'"), LazyPlus(ClsAny), Lit("'!")>> \o ReRangeTail

\* ([A-Z]+)(\d+):([A-Z]+)(\d+), re.IGNORECASE
ReRange ==
  <<Open(1), Plus(ClsAlpha), Close(1), Open(2), Plus(ClsDigit), Close(2), Lit(":"),
    Open(3), Plus(ClsAlpha), Close(3), Open(4), Plus(ClsDigit), Close(4)>>

\* VLOOKUP\(\s*(.+?)\s*,\s*(.+?\$?[A-Z]+\$?\d+:\$?[A-Z]+\$?\d+)\s*,\s*(\d+)\s*,\s*(?:FALSE|0)\s*\)
ReVlookup ==
  <<Lit("VLOOKUP("), Star(ClsWs), Open(1), LazyPlus(ClsAny), Close(1), Star(ClsWs),
    Lit(","), Star(ClsWs), Open(2), LazyPlus(ClsAny)>> \o ReRangeTail \o
  <<Close(2), Star(ClsWs), Lit(","), Star(ClsWs), Open(3), Plus(ClsDigit), Close(3),
    Star(ClsWs), Lit(","), Star(ClsWs), Alt(<< <<Lit("FALSE")>>, <<Lit("0")>> >>),
    Star(ClsWs), Lit(")")>>

\* ^[A-Za-z].*![A-Z]+\d+$ (case-sensitive)
ReSheetRef ==
  <<Ch(ClsAlpha, 1, 1, FALSE), Star(ClsAny), Lit("!"), Plus(ClsUpper), Plus(ClsDigit), End>>

\* ^[A-Z]+\d+$ (case-sensitive)
ReCellRef == <<Plus(ClsUpper), Plus(ClsDigit), End>>

\* ^=('?[^=+\-*/()]+?'?!)?\$?([A-Z]+)\$?(\d+)$
ReDirect ==
  <<Lit("="),
    Opt(<<Open(1), Maybe(ClsQuote), LazyPlus(ClsSheet), Maybe(ClsQuote), Lit("!"), Close(1)>>),
    Maybe(ClsDollar), Open(2), Plus(ClsAlpha), Close(2), Maybe(ClsDollar),
    Open(3), Plus(ClsDigit), Close(3), End>>

\* ^=IFERROR\((.+),\s*""\s*\)$
ReIferror ==
  <<Lit("=IFERROR("), Open(1), Plus(ClsAny), Close(1), Lit(","), Star(ClsWs),
    Lit("\"\""), Star(ClsWs), Lit(")"), End>>

\* ^=IF\(\s*(.+?)\s*=\s*(?:0|"")\s*,\s*""\s*,\s*(.+?)\s*\)$
ReIf ==
  <<Lit("=IF("), Star(ClsWs), Open(1), LazyPlus(ClsAny), Close(1), Star(ClsWs), Lit("="),
    Star(ClsWs), Alt(<< <<Lit("0")>>, <<Lit("\"\"")>> >>), Star(ClsWs), Lit(","),
    Star(ClsWs), Lit("\"\""), Star(ClsWs), Lit(","), Star(ClsWs),
    Open(2), LazyPlus(ClsAny), Close(2), Star(ClsWs), Lit(")"), End>>

\* ^=ROUND\(\s*(.+?)\s*,\s*(\d+)\s*\)$
ReRound ==
  <<Lit("=ROUND("), Star(ClsWs), Open(1), LazyPlus(ClsAny), Close(1), Star(ClsWs),
    Lit(","), Star(ClsWs), Open(2), Plus(ClsDigit), Close(2), Star(ClsWs), Lit(")"), End>>

\* ^=CONCATENATE\((.+)\)$
ReConcatenate ==
  <<Lit("=CONCATENATE("), Open(1), Plus(ClsAny), Close(1), Lit(")"), End>>

\* ^(.+)/(\d+)\s*$
ReDivisor ==
  <<Open(1), Plus(ClsAny), Close(1), Lit("/"), Open(2), Plus(ClsDigit), Close(2),
    Star(ClsWs), End>>

\* MATCH\((.+?),\s*('.+?'!<range>)\s*,\s*0\s*\) with capture groups g and g + 1
ReMatchCall(g) ==
  <<Lit("MATCH("), Open(g), LazyPlus(ClsAny), Close(g), Lit(","), Star(ClsWs), Open(g + 1)>>
  \o ReQuotedRange \o
  <<Close(g + 1), Star(ClsWs), Lit(","), Star(ClsWs), Lit("0"), Star(ClsWs), Lit(")")>>

\* INDEX\(\s*('.+?'!<range>)\s*,\s*MATCH(...)(?:\s*,\s*MATCH(...))?\s*\)
ReIndexMatch ==
  <<Lit("INDEX("), Star(ClsWs), Open(1)>> \o ReQuotedRange \o
  <<Close(1), Star(ClsWs), Lit(","), Star(ClsWs)>> \o ReMatchCall(2) \o
  <<Opt(<<Star(ClsWs), Lit(","), Star(ClsWs)>> \o ReMatchCall(4)), Star(ClsWs), Lit(")")>>

(***************************************************************************)
(* The helpers nested in _resolve_xlsm_formulas                            *)
(***************************************************************************)
\* _resolve_cell_ref gone wrong: a cell without a value reads as 0
_resolve_cell_ref_ZeroForMissing(sheet, coord) ==
  IF <<sheet, coord>> \in DOMAIN cell_values THEN cell_values[<<sheet, coord>>] ELSE IntV(0)

\* cell_values.get((sheet, coord))
_resolve_cell_ref(sheet, coord) ==
  IF <<sheet, coord>> \in DOMAIN cell_values THEN cell_values[<<sheet, coord>>] ELSE NoneV

StripQuotes(s) == StripSet(StripSet(s, {"'"}), {"\""})

\* _parse_cell_ref gone wrong: the $ markers stay in the coordinate
_parse_cell_ref_KeepsDollar(ref_str, current_sheet) ==
  First({IF FirstIndex(r, "!") # 0
         THEN <<StripQuotes(SubSeq(r, 1, FirstIndex(r, "!") - 1)),
                Strip(SubSeq(r, FirstIndex(r, "!") + 1, Len(r)))>>
         ELSE <<current_sheet, Strip(r)>> :
           r \in {StripQuotes(Strip(ref_str))}})

\* 'Sheet!A1' or 'A1' to <<sheet, coordinate>>
_parse_cell_ref(ref_str, current_sheet) ==
  First({IF FirstIndex(r, "!") # 0
         THEN <<StripQuotes(SubSeq(r, 1, FirstIndex(r, "!") - 1)),
                RemoveChar(Strip(SubSeq(r, FirstIndex(r, "!") + 1, Len(r))), "$")>>
         ELSE <<current_sheet, RemoveChar(Strip(r), "$")>> :
           r \in {StripQuotes(Strip(ref_str))}})

\* RefValue gone wrong: a cell without a value reads as ''
RefValue_MissingIsEmpty(ref_str, current_sheet) ==
  First({IF IsNone(val) THEN StrV("") ELSE val :
           val \in {First({_resolve_cell_ref(ref[1], ref[2]) :
                             ref \in {_parse_cell_ref(ref_str, current_sheet)}})}})

\* sheet, coord = _parse_cell_ref(ref_str, current_sheet), then
\* _resolve_cell_ref(sheet, coord)
RefValue(ref_str, current_sheet) ==
  First({_resolve_cell_ref(ref[1], ref[2]) : ref \in {_parse_cell_ref(ref_str, current_sheet)}})

RECURSIVE ColFold(_, _)
ColFold(str, result) ==
  IF str = "" THEN result
  ELSE ColFold(Tail(str), result * 26 + IndexIn(CharAt(str, 1), UpperChars))

\* column letters to the 1-based column number
_col_letter_to_num(col_str) == ColFold(RemoveChar(Upper(col_str), "$"), 0)

RECURSIVE NumToColLoop_NoBorrow(_, _)
\* NumToColLoop gone wrong: divmod(n, 26) with the letter of n - 1
NumToColLoop_NoBorrow(n, result) ==
  IF n > 0
  THEN NumToColLoop_NoBorrow(n \div 26, CharAt(UpperChars, ((n - 1) % 26) + 1) \o result)
  ELSE result

RECURSIVE NumToColLoop(_, _)
NumToColLoop(n, result) ==
  IF n > 0
  THEN NumToColLoop((n - 1) \div 26, CharAt(UpperChars, ((n - 1) % 26) + 1) \o result)
  ELSE result

\* the 1-based column number to column letters
_num_to_col_letter(n) == NumToColLoop(n, "")

\* f"{_num_to_col_letter(col)}{row}"
CoordOf(col, row) == _num_to_col_letter(col) \o PyStr(IntV(row))

\* the corners of range_str: [ok, start_col, start_row, end_col, end_row]
RangeCorners(range_str) ==
  First({IF ~m.ok THEN [ok |-> FALSE, start_col |-> 0, start_row |-> 0,
                        end_col |-> 0, end_row |-> 0]
         ELSE [ok |-> TRUE,
               start_col |-> _col_letter_to_num(m.g[1]), start_row |-> DigitsToNat(m.g[2]),
               end_col |-> _col_letter_to_num(m.g[3]), end_row |-> DigitsToNat(m.g[4])] :
           m \in {Match(ReRange, 4, RemoveChar(range_str, "$"))}})

\* _get_range_value gone wrong: an offset past the declared end gives None
_get_range_value_BoundsChecked(sheet, range_str, row_idx, col_idx) ==
  First({IF ~rg.ok \/ rg.start_col + col_idx - 1 > rg.end_col
                   \/ rg.start_row + row_idx - 1 > rg.end_row
         THEN NoneV
         ELSE _resolve_cell_ref(sheet, CoordOf(rg.start_col + col_idx - 1,
                                               rg.start_row + row_idx - 1)) :
           rg \in {RangeCorners(range_str)}})

\* the value row_idx rows and col_idx columns (1-based) into the range
_get_range_value(sheet, range_str, row_idx, col_idx) ==
  First({IF ~rg.ok THEN NoneV
         ELSE _resolve_cell_ref(sheet, CoordOf(rg.start_col + col_idx - 1,
                                               rg.start_row + row_idx - 1)) :
           rg \in {RangeCorners(range_str)}})

\* val is not None and str(val).strip() == str(lookup_val).strip()
SameText(val, lookup_val) ==
  ~IsNone(val) /\ Strip(PyStr(val)) = Strip(PyStr(lookup_val))

\* ScanColumn gone wrong: the position counts only the cells that have a value
ScanColumn_SkipsAbsent(lookup_val, sheet, col, start_row, end_row) ==
  First({IF hits = {} THEN NoneV
         ELSE IntV(Cardinality({r \in start_row..(CHOOSE r \in hits : \A q \in hits : r <= q) :
                                  ~IsNone(_resolve_cell_ref(sheet, CoordOf(col, r)))})) :
           hits \in {{r \in start_row..end_row :
                        SameText(_resolve_cell_ref(sheet, CoordOf(col, r)), lookup_val)}}})

\* for i, r in enumerate(range(start_row, end_row + 1), 1): the first i whose cell
\* matches
ScanColumn(lookup_val, sheet, col, start_row, end_row) ==
  First({IF hits = {} THEN NoneV
         ELSE IntV((CHOOSE r \in hits : \A q \in hits : r <= q) - start_row + 1) :
           hits \in {{r \in start_row..end_row :
                        SameText(_resolve_cell_ref(sheet, CoordOf(col, r)), lookup_val)}}})

\* for i, c in enumerate(range(start_col, end_col + 1), 1): the first i whose cell
\* matches
ScanRow(lookup_val, sheet, row, start_col, end_col) ==
  First({IF hits = {} THEN NoneV
         ELSE IntV((CHOOSE c \in hits : \A q \in hits : c <= q) - start_col + 1) :
           hits \in {{c \in start_col..end_col :
                        SameText(_resolve_cell_ref(sheet, CoordOf(c, row)), lookup_val)}}})

\* MATCH(lookup_val, range, 0): the 1-based position in a 1-D range
_match_in_range(lookup_val, sheet, range_str) ==
  First({IF ~rg.ok THEN NoneV
         ELSE IF rg.start_col = rg.end_col
         THEN ScanColumn(v, sheet, rg.start_col, rg.start_row, rg.end_row)
         ELSE IF rg.start_row = rg.end_row
         THEN ScanRow(v, sheet, rg.start_row, rg.start_col, rg.end_col)
         ELSE NoneV :
           rg \in {RangeCorners(range_str)}, v \in {lookup_val}})

RECURSIVE _resolve_ref_or_value(_, _)
RECURSIVE _resolve_vlookup(_, _, _, _)

\* float(expr) if '.' in expr else int(expr), expr itself on ValueError
NumberOrText(expr) ==
  IF Contains(expr, ".")
  THEN First({IF x.ok THEN FloatV(x.v) ELSE StrV(expr) : x \in {PyFloatOfStr(expr)}})
  ELSE First({IF x.ok THEN IntV(x.v) ELSE StrV(expr) : x \in {PyIntOfStr(expr)}})

\* an expression: a quoted literal, a VLOOKUP, a cell reference, a number or a text
_resolve_ref_or_value(expr0, current_sheet) ==
  First({IF StartsWith(expr, "\"") /\ EndsWith(expr, "\"") THEN StrV(StripSet(expr, {"\""}))
         ELSE First({IF m_vl.ok
                     THEN _resolve_vlookup(m_vl.g[1], m_vl.g[2], DigitsToNat(m_vl.g[3]),
                                           current_sheet)
                     ELSE IF Match(ReSheetRef, 0, clean).ok \/ Match(ReCellRef, 0, clean).ok
                     THEN RefValue(expr, current_sheet)
                     ELSE NumberOrText(expr) :
                       m_vl \in {Match(ReVlookup, 3, expr)},
                       clean \in {RemoveChar(RemoveChar(expr, "$"), "'")}}) :
           expr \in {Strip(expr0)}})

\* VlookupScan gone wrong: the result column is counted from 0
VlookupScan_ColumnFromZero(lookup_val, vl_sheet, start_col, col_index, start_row, end_row) ==
  First({IF hits = {} THEN NoneV
         ELSE _resolve_cell_ref(vl_sheet,
                CoordOf(start_col + col_index, CHOOSE r \in hits : \A q \in hits : r <= q)) :
           hits \in {{r \in start_row..end_row :
                        SameText(_resolve_cell_ref(vl_sheet, CoordOf(start_col, r)),
                                 lookup_val)}}})

\* for r in range(start_row, end_row + 1): the col_index-th value of the first row
\* whose first column matches
VlookupScan(lookup_val, vl_sheet, start_col, col_index, start_row, end_row) ==
  First({IF hits = {} THEN NoneV
         ELSE _resolve_cell_ref(vl_sheet,
                CoordOf(start_col + col_index - 1, CHOOSE r \in hits : \A q \in hits : r <= q)) :
           hits \in {{r \in start_row..end_row :
                        SameText(_resolve_cell_ref(vl_sheet, CoordOf(start_col, r)),
                                 lookup_val)}}})

\* VLOOKUP(lookup_val, table_range, col_index, FALSE)
_resolve_vlookup(lookup_expr, table_range, col_index, current_sheet) ==
  First({IF IsNone(lookup_val) THEN NoneV
         ELSE First({IF ~rg.ok THEN NoneV
                     ELSE VlookupScan(lookup_val, vl[1], rg.start_col, col_index,
                                      rg.start_row, rg.end_row) :
                       rg \in {RangeCorners(vl[2])}}) :
           lookup_val \in {_resolve_ref_or_value(lookup_expr, current_sheet)},
           vl \in {_parse_cell_ref(table_range, current_sheet)}})

\* val = float(val) / divisor inside try ... except (ValueError, TypeError): pass
Scale(val, divisor) ==
  IF ~IsNone(val) /\ divisor # 1
  THEN First({IF ~x.ok THEN val
              ELSE IF divisor = 0 THEN RaiseV("ZeroDivisionError")
              ELSE FloatV(PyDiv(x.v, divisor)) :
                x \in {PyFloat(val)}})
  ELSE val

\* lines 296-304 and 308-314: the lookup expression resolved and matched in its range
MatchPosition(lookup_expr, match_range, current_sheet) ==
  First({IF IsNone(lookup_val) THEN NoneV
         ELSE _match_in_range(lookup_val, rng[1], rng[2]) :
           lookup_val \in {_resolve_ref_or_value(Strip(lookup_expr), current_sheet)},
           rng \in {_parse_cell_ref(Strip(match_range), current_sheet)}})

\* lines 290-327: the groups of the INDEX pattern evaluated
IndexOf(m, divisor, current_sheet) ==
  First({IF IsNone(row_idx) \/ IsNone(col_idx) THEN NoneV
         ELSE First({Scale(val, d) :
                       val \in {_get_range_value(idx[1], idx[2], row_idx.v, col_idx.v)}}) :
           idx \in {_parse_cell_ref(Strip(m.g[1]), current_sheet)},
           row_idx \in {MatchPosition(m.g[2], m.g[3], current_sheet)},
           col_idx \in {IF m.has[4] /\ m.g[4] # "" /\ m.has[5] /\ m.g[5] # ""
                        THEN MatchPosition(m.g[4], m.g[5], current_sheet)
                        ELSE IntV(1)},
           d \in {divisor}})

\* INDEX(range, MATCH(...), MATCH(...)) with an optional /N suffix
_resolve_index_match(expr0, current_sheet) ==
  First({First({IF ~m.ok THEN NoneV
                ELSE IndexOf(m, IF m_div.ok THEN DigitsToNat(m_div.g[2]) ELSE 1,
                             current_sheet) :
                  m \in {Match(ReIndexMatch, 5,
                               IF m_div.ok THEN Strip(m_div.g[1]) ELSE expr0)}}) :
           m_div \in {Match(ReDivisor, 2, expr0)}})

\* one argument of CONCATENATE as text
ConcatPart(arg, current_sheet) ==
  IF StartsWith(arg, "\"") /\ EndsWith(arg, "\"") THEN StripSet(arg, {"\""})
  ELSE First({IF IsNone(val) THEN "" ELSE PyStr(val) : val \in {RefValue(arg, current_sheet)}})

RECURSIVE ConcatParts(_, _, _)
\* "".join(parts) over the arguments args[i..]
ConcatParts(args, i, current_sheet) ==
  IF i > Len(args) THEN ""
  ELSE First({ConcatPart(arg, current_sheet) : arg \in {Strip(args[i])}})
         \o ConcatParts(args, i + 1, current_sheet)

\* ResolveIf gone wrong: a missing value gives None
ResolveIf_MissingIsNone(m, current_sheet) ==
  First({IF IsNone(val) THEN NoneV
         ELSE IF EqZero(val) \/ EqEmptyStr(val) THEN StrV("") ELSE val :
           val \in {RefValue(Strip(m.g[2]), current_sheet)}})

\* ResolveIf gone wrong: the value is read from the cell of the condition
ResolveIf_ReadsCondition(m, current_sheet) ==
  First({IF IsNone(val) \/ EqZero(val) \/ EqEmptyStr(val) THEN StrV("") ELSE val :
           val \in {RefValue(Strip(m.g[1]), current_sheet)}})

\* lines 222-230: =IF(X=0,"",X) or =IF(X="","",X)
ResolveIf(m, current_sheet) ==
  First({IF IsNone(val) \/ EqZero(val) \/ EqEmptyStr(val) THEN StrV("") ELSE val :
           val \in {RefValue(Strip(m.g[2]), current_sheet)}})

\* ResolveRound gone wrong: a missing value counts as 0
ResolveRound_MissingIsZero(m, current_sheet) ==
  First({First({IF x.ok THEN FloatV(PyRound(x.v, DigitsToNat(m.g[2]))) ELSE val :
                  x \in {PyFloat(IF IsNone(val) THEN IntV(0) ELSE val)}}) :
           val \in {RefValue(Strip(m.g[1]), current_sheet)}})

\* lines 232-244: =ROUND(X, N)
ResolveRound(m, current_sheet) ==
  First({IF IsNone(val) THEN NoneV
         ELSE First({IF x.ok THEN FloatV(PyRound(x.v, DigitsToNat(m.g[2]))) ELSE val :
                       x \in {PyFloat(val)}}) :
           val \in {RefValue(Strip(m.g[1]), current_sheet)}})

\* lines 246-259: =CONCATENATE(A,B,C,...)
ResolveConcatenate(m, current_sheet) ==
  First({StrV(ConcatParts(args, 1, current_sheet)) : args \in {Split(m.g[1], ",")}})

\* ResolveTail gone wrong: a formula of no recognized shape gives ''
ResolveTail_UnsupportedEmpty(f, current_sheet) ==
  First({IF m_if.ok THEN ResolveIf(m_if, current_sheet)
         ELSE IF m_round.ok THEN ResolveRound(m_round, current_sheet)
         ELSE IF m_cat.ok THEN ResolveConcatenate(m_cat, current_sheet)
         ELSE StrV("") :
           m_if \in {Match(ReIf, 2, f)}, m_round \in {Match(ReRound, 2, f)},
           m_cat \in {Match(ReConcatenate, 1, f)}})

\* the IF, ROUND and CONCATENATE branches and the final return None
ResolveTail(f, current_sheet) ==
  First({IF m_if.ok THEN ResolveIf(m_if, current_sheet)
         ELSE IF m_round.ok THEN ResolveRound(m_round, current_sheet)
         ELSE IF m_cat.ok THEN ResolveConcatenate(m_cat, current_sheet)
         ELSE NoneV :
           m_if \in {Match(ReIf, 2, f)}, m_round \in {Match(ReRound, 2, f)},
           m_cat \in {Match(ReConcatenate, 1, f)}})

\* f = formula.strip(), then '=+' becomes '='
PlusPrefix(f) == IF StartsWith(f, "=+") THEN "=" \o SubSeq(f, 3, Len(f)) ELSE f

\* ResolveShape gone wrong: the INDEX/MATCH branch returns whatever it finds
ResolveShape_Exclusive(f, current_sheet) ==
  IF Match(ReDirect, 3, f).ok THEN RefValue(Tail(f), current_sheet)
  ELSE First({IF m_iferror.ok
              THEN First({IF IsNone(val) THEN StrV("") ELSE val :
                            val \in {_resolve_index_match(Strip(m_iferror.g[1]),
                                                          current_sheet)}})
              ELSE IF Contains(Upper(f), "INDEX(") /\ Contains(Upper(f), "MATCH(")
              THEN _resolve_index_match(Tail(f), current_sheet)
              ELSE ResolveTail(f, current_sheet) :
                m_iferror \in {Match(ReIferror, 1, f)}})

\* lines 200-262 on the stripped formula f
ResolveShape(f, current_sheet) ==
  IF Match(ReDirect, 3, f).ok THEN RefValue(Tail(f), current_sheet)
  ELSE First({IF m_iferror.ok
              THEN First({IF IsNone(val) THEN StrV("") ELSE val :
                            val \in {_resolve_index_match(Strip(m_iferror.g[1]),
                                                          current_sheet)}})
              ELSE IF Contains(Upper(f), "INDEX(") /\ Contains(Upper(f), "MATCH(")
              THEN First({IF ~IsNone(val) THEN val ELSE ResolveTail(f, current_sheet) :
                            val \in {_resolve_index_match(Tail(f), current_sheet)}})
              ELSE ResolveTail(f, current_sheet) :
                m_iferror \in {Match(ReIferror, 1, f)}})

\* the value of a formula, None when it cannot be resolved
_resolve_formula(formula, current_sheet) ==
  IF ~StartsWith(formula, "=") THEN StrV(formula)
  ELSE First({First({ResolveShape(f, current_sheet) : f \in {PlusPrefix(f0)}}) :
                f0 \in {Strip(formula)}})

(***************************************************************************)
(* Workbooks.  A workbook is [sheetnames, ws]; ws[name] is a sheet         *)
(* [max_row, max_column, cell], cell[<<row, column>>] the value of a cell  *)
(* (NoneV for an empty one).                                               *)
(***************************************************************************)
\* isinstance(val, str) and val.startswith('=')
IsFormula(val) == IsStr(val) /\ StartsWith(val.s, "=")

\* IterRows gone wrong: the cells of a sheet from the last to the first
IterRows_Backwards(sheet) ==
  [k \in 1..(sheet.max_row * sheet.max_column) |->
     <<((sheet.max_row * sheet.max_column - k) \div sheet.max_column) + 1,
       ((sheet.max_row * sheet.max_column - k) % sheet.max_column) + 1>>]

\* IterRows gone wrong: the cells of a sheet, column by column
IterRows_ColumnMajor(sheet) ==
  [k \in 1..(sheet.max_row * sheet.max_column) |->
     <<((k - 1) % sheet.max_row) + 1, ((k - 1) \div sheet.max_row) + 1>>]

\* ws.iter_rows(), flattened: the cells of a sheet, row by row
IterRows(sheet) ==
  [k \in 1..(sheet.max_row * sheet.max_column) |->
     <<((k - 1) \div sheet.max_column) + 1, ((k - 1) % sheet.max_column) + 1>>]

RECURSIVE IterSheets(_, _)
\* for sheet_name in wb.sheetnames: for row in ws.iter_rows(): for cell in row,
\* from sheet number n on: <<sheet_name, cell.coordinate, cell.value>>
IterSheets(wb, n) ==
  IF n > Len(wb.sheetnames) THEN <<>>
  ELSE LET name == wb.sheetnames[n]
           sheet == wb.ws[name]
           rows == IterRows(sheet)
       IN [k \in 1..Len(rows) |->
             <<name, CoordOf(rows[k][2], rows[k][1]), sheet.cell[rows[k]]>>]
          \o IterSheets(wb, n + 1)

IterCells(wb) == IterSheets(wb, 1)

\* cell_values[key] = val
Put(cv, key, val) == (key :> val) @@ cv

RECURSIVE SeedCachedLoop(_, _)
\* lines 44-49: every cell of wb_cached that has a value
SeedCachedLoop(cells, cv) ==
  IF cells = <<>> THEN cv
  ELSE LET c == Head(cells)
       IN SeedCachedLoop(Tail(cells),
            IF ~IsNone(c[3]) THEN Put(cv, <<c[1], c[2]>>, c[3]) ELSE cv)

RECURSIVE SeedLiteralLoop_AllValues(_, _)
\* SeedLiteralLoop gone wrong: formula strings are seeded like literals
SeedLiteralLoop_AllValues(cells, cv) ==
  IF cells = <<>> THEN cv
  ELSE LET c == Head(cells)
       IN SeedLiteralLoop_AllValues(Tail(cells),
            IF ~IsNone(c[3]) THEN Put(cv, <<c[1], c[2]>>, c[3]) ELSE cv)

RECURSIVE SeedLiteralLoop(_, _)
\* lines 52-58: every cell of wb_formulas that holds a value and no formula
SeedLiteralLoop(cells, cv) ==
  IF cells = <<>> THEN cv
  ELSE LET c == Head(cells)
       IN SeedLiteralLoop(Tail(cells),
            IF ~IsNone(c[3]) /\ ~IsFormula(c[3]) THEN Put(cv, <<c[1], c[2]>>, c[3]) ELSE cv)

RECURSIVE CollectLoop_KeepsCached(_, _)
\* CollectLoop gone wrong: a formula cell with a value in cell_values is collected too
CollectLoop_KeepsCached(cells, cv) ==
  IF cells = <<>> THEN <<>>
  ELSE LET c == Head(cells)
       IN (IF IsFormula(c[3]) THEN <<<<c[1], c[2], c[3].s>>>> ELSE <<>>)
          \o CollectLoop_KeepsCached(Tail(cells), cv)

RECURSIVE CollectLoop(_, _)
\* lines 330-339: the formula cells without a value in cell_values
CollectLoop(cells, cv) ==
  IF cells = <<>> THEN <<>>
  ELSE LET c == Head(cells)
       IN (IF IsFormula(c[3]) /\ <<c[1], c[2]>> \notin DOMAIN cv
           THEN <<<<c[1], c[2], c[3].s>>>> ELSE <<>>)
          \o CollectLoop(Tail(cells), cv)

\* WriteSheets gone wrong: only the formula cells are written
WriteSheets_FormulaCellsOnly(wb, cv) ==
  [sheetnames |-> wb.sheetnames,
   ws |-> [name \in DOMAIN wb.ws |->
             [max_row |-> wb.ws[name].max_row,
              max_column |-> wb.ws[name].max_column,
              cell |-> [rc \in DOMAIN wb.ws[name].cell |->
                          LET val == wb.ws[name].cell[rc]
                              key == <<name, CoordOf(rc[2], rc[1])>>
                          IN IF IsFormula(val) /\ key \in DOMAIN cv THEN cv[key]
                             ELSE NoneV]]]]

\* WriteSheets gone wrong: an unresolved formula cell is written as ''
WriteSheets_EmptyForMissing(wb, cv) ==
  [sheetnames |-> wb.sheetnames,
   ws |-> [name \in DOMAIN wb.ws |->
             [max_row |-> wb.ws[name].max_row,
              max_column |-> wb.ws[name].max_column,
              cell |-> [rc \in DOMAIN wb.ws[name].cell |->
                          LET val == wb.ws[name].cell[rc]
                              key == <<name, CoordOf(rc[2], rc[1])>>
                          IN IF IsFormula(val)
                             THEN (IF key \in DOMAIN cv THEN cv[key] ELSE StrV(""))
                             ELSE val]]]]

\* lines 362-379: the sheets of the source, formula cells replaced by their value
WriteSheets(wb, cv) ==
  [sheetnames |-> wb.sheetnames,
   ws |-> [name \in DOMAIN wb.ws |->
             [max_row |-> wb.ws[name].max_row,
              max_column |-> wb.ws[name].max_column,
              cell |-> [rc \in DOMAIN wb.ws[name].cell |->
                          LET val == wb.ws[name].cell[rc]
                              key == <<name, CoordOf(rc[2], rc[1])>>
                          IN IF IsFormula(val)
                             THEN (IF key \in DOMAIN cv THEN cv[key] ELSE NoneV)
                             ELSE val]]]]

\* load_workbook(data_only=True) of a file written by openpyxl: a cell written
\* with a string that starts with '=' is stored as a formula without a cached value
LoadCached(wb) ==
  [sheetnames |-> wb.sheetnames,
   ws |-> [name \in DOMAIN wb.ws |->
             [max_row |-> wb.ws[name].max_row,
              max_column |-> wb.ws[name].max_column,
              cell |-> [rc \in DOMAIN wb.ws[name].cell |->
                          IF IsFormula(wb.ws[name].cell[rc]) THEN NoneV
                          ELSE wb.ws[name].cell[rc]]]]]

NoWorkbook == [sheetnames |-> <<>>, ws |-> <<>>]
NoCall ==
  [fn |-> "none", lookup |-> NoneV, text |-> "", cells |-> <<>>, cols |-> <<>>,
   oneD |-> FALSE, row_index |-> 0, col_index |-> 0, result |-> NoneV]

\* parse_excel_to_markdown not called
NoConv ==
  [pc |-> "idle", suffix |-> "", parse_suffix |-> "", has_resolved |-> FALSE,
   tmp_created |-> FALSE, tmp_exists |-> FALSE, unlink_failed |-> FALSE,
   markdown_text |-> NoneV, exc |-> ""]

\* no run has ended yet
NoPrior ==
  [f |-> NoWorkbook, c |-> NoWorkbook, store |-> <<>>, unresolved |-> <<>>,
   out |-> NoWorkbook, raised |-> ""]

max_passes == 3

(***************************************************************************)
(* The workbooks of the model: two sheets, "Data" and "Lookup".            *)
(*                                                                         *)
(*   Lookup      A      B      C          Data     A      B      C         *)
(*     1                "k"    "v"          1      lit    slot1  slot2     *)
(*     2                "X"    42           2      slot3  slot4            *)
(*     3                10     "ten"                                       *)
(*     4                " Y"   7                                           *)
(*                                                                         *)
(* Data!A1 holds a literal (or nothing), the slots hold formulas (or       *)
(* nothing); the formula of slot 1 may come with a cached value.           *)
(***************************************************************************)
LookupSheet ==
  [max_row |-> 4, max_column |-> 3,
   cell |-> [rc \in (1..4) \X (1..3) |->
               CASE rc = <<1, 2>> -> StrV("k")
                 [] rc = <<1, 3>> -> StrV("v")
                 [] rc = <<2, 2>> -> StrV("X")
                 [] rc = <<2, 3>> -> IntV(42)
                 [] rc = <<3, 2>> -> IntV(10)
                 [] rc = <<3, 3>> -> StrV("ten")
                 [] rc = <<4, 2>> -> StrV(" Y")
                 [] rc = <<4, 3>> -> IntV(7)
                 [] OTHER -> NoneV]]

\* the cells of Data that may hold a formula, in iteration order: B1, C1, A2, B2
Slots == << <<1, 2>>, <<1, 3>>, <<2, 1>>, <<2, 2>> >>

SlotOf(rc) == IF \E n \in 1..Len(Slots) : Slots[n] = rc
              THEN CHOOSE n \in 1..Len(Slots) : Slots[n] = rc
              ELSE 0

\* Data as load_workbook(data_only=False) gives it (view = "f") and as
\* load_workbook(data_only=True) gives it (view = "c")
DataSheet(lit, layout, cached, view) ==
  [max_row |-> 2, max_column |-> 3,
   cell |-> [rc \in (1..2) \X (1..3) |->
               IF rc = <<1, 1>> THEN lit
               ELSE IF SlotOf(rc) = 0 \/ layout[SlotOf(rc)] = "" THEN NoneV
               ELSE IF view = "f" THEN StrV(layout[SlotOf(rc)])
               ELSE IF SlotOf(rc) = 1 THEN cached
               ELSE NoneV]]

\* Lookup of a workbook: a fifth entry of the layout is a formula in Lookup!A1,
\* which carries no cached value
LookupSheetOf(layout, view) ==
  IF Len(layout) >= 5 /\ view = "f"
  THEN [LookupSheet EXCEPT !.cell[<<1, 1>>] = StrV(layout[5])]
  ELSE LookupSheet

Workbook(lit, layout, cached, view) ==
  [sheetnames |-> <<"Data", "Lookup">>,
   ws |-> [name \in {"Data", "Lookup"} |->
             IF name = "Data" THEN DataSheet(lit, layout, cached, view)
             ELSE LookupSheetOf(layout, view)]]

\* the literals Data!A1 is drawn from: the first NumLiterals of these
LiteralList == <<IntV(10), StrV("X"), IntV(0), FloatV(25 * Pow10(FloatPlaces - 1)), StrV(" X ")>>
NumLiterals == 3
Literals == {LiteralList[n] : n \in 1..NumLiterals} \cup {NoneV}

\* the cached value a formula cell may carry
CachedValues == {NoneV, IntV(7)}

DirectFormulas ==
  {"=A1", "=+A1", "=$A$1", "=B1", "=C1", "=Z9", "=a1", "=Lookup!C2", "='Lookup'!$C$4",
   "=Data!A1"}

IferrorFormulas ==
  {"=IFERROR(INDEX('Lookup'!B2:C4,MATCH(A1,'Lookup'!B2:B4,0),MATCH(\"v\",'Lookup'!B1:C1,0)),\"\")",
   "=IFERROR(INDEX('Lookup'!B2:C4,MATCH(A1,'Lookup'!B2:B4,0),MATCH(\"v\",'Lookup'!B1:C1,0))/100,\"\")",
   "=IFERROR(INDEX('Lookup'!B2:C4,MATCH(A1,'Lookup'!B2:B4,0),MATCH(\"v\",'Lookup'!B1:C1,0))/0,\"\")",
   "=IFERROR(A1,\"\")",
   "=IFERROR(INDEX('Lookup'!C2:C4,MATCH(Z9,'Lookup'!B2:B4,0)),\"\")",
   "=IFERROR(INDEX('Lookup'!C2:C4,MATCH(\"Q\",'Lookup'!B2:B4,0)),\"\")",
   "=IFERROR(INDEX('Lookup'!A2:A4,MATCH(A1,'Lookup'!B2:B4,0)),\"\")"}

IndexFormulas ==
  {"=INDEX('Lookup'!C2:C4,MATCH(A1,'Lookup'!B2:B4,0))",
   "=INDEX('Lookup'!C2:C4,MATCH(A1,'Lookup'!B2:B4,0))/0",
   "=INDEX('Lookup'!C2:C4,MATCH(VLOOKUP(A1,Lookup!B2:C4,1,FALSE),'Lookup'!B2:B4,0))",
   "=INDEX('Lookup'!B2:C4,MATCH(B1,'Lookup'!B2:B4,0),MATCH(\"v\",'Lookup'!B1:C1,0))",
   "=INDEX('Lookup'!C2:C4,MATCH(Z9,'Lookup'!B2:B4,0))"}

IfFormulas == {"=IF(A1=0,\"\",A1)", "=IF(C1=\"\",\"\",C1)", "=IF(Z9=0,\"\",Z9)"}

\* IF formulas whose condition reads another cell than their value
IfOtherFormulas == {"=IF(Z9=0,\"\",A1)", "=IF(A1=\"\", \"\", 'Data'!$A$1)", "=IF(A1=0,\"\",Z9)"}

RoundFormulas == {"=ROUND(A1,2)", "=ROUND(A1/3,2)", "=ROUND(Z9,0)", "=ROUND(B1,1)"}

ConcatenateFormulas ==
  {"=CONCATENATE(\"a\",A1,\"b\")", "=CONCATENATE(\"=A1\")", "=CONCATENATE(Z9)",
   "=CONCATENATE(C1,\"x\")", "=CONCATENATE(A1,\", \",A1)"}

UnsupportedFormulas == {"=SUM(A1:A2)", "=A1+1"}

\* IF and ROUND formulas with an INDEX/MATCH inside
MixedFormulas ==
  {"=IF(A1=0,\"\",INDEX('Lookup'!C2:C4,MATCH(A1,'Lookup'!B2:B4,0)))",
   "=ROUND(INDEX('Lookup'!C2:C4,MATCH(A1,'Lookup'!B2:B4,0)),2)"}

Formulas ==
  DirectFormulas \cup IferrorFormulas \cup IndexFormulas \cup IfFormulas
    \cup RoundFormulas \cup ConcatenateFormulas \cup UnsupportedFormulas
    \cup MixedFormulas \cup IfOtherFormulas

\* the direct references of the chains and cycles over the four slots
ChainFormulas == {"=A1", "=B1", "=C1", "=A2", "=B2"}

\* the formulas C1 may hold next to a formula in B1
SecondFormulas == {"=B1", "=ROUND(B1,1)", "=IF(B1=\"\",\"\",B1)"}

\* the formulas Lookup!A1 may hold
LookupFormulas == {"=Data!B2", "=B2"}

\* formulas in B1 that read C1 = "=A1", a formula cell listed after B1
EarlyFormulas ==
  {"=IF(C1=\"\",\"\",C1)", "=CONCATENATE(C1,\"x\")",
   "=IFERROR(INDEX('Lookup'!C2:C4,MATCH(C1,'Lookup'!B2:B4,0)),\"\")",
   "=ROUND(C1,0)", "=C1"}

\* an INDEX/MATCH in B1 whose match range begins with the formula cell Lookup!A1
EarlyIndexFormula == "=INDEX('Lookup'!B1:B4,MATCH(\"k\",'Lookup'!A1:B1,0))"

\* which formulas the slots hold: any formula in B1 with a dependent one in C1,
\* one formula in A2 alone, direct references in all four slots, a formula
\* of no recognized shape in B1 next to the chain C1 <- A2 <- B2 <- A1,
\* Data!B1 = Lookup!A1 and Data!B2 = A1 with a formula in Lookup!A1, or a
\* formula in B1 that reads a formula cell listed after it
Layouts ==
  {<<f1, f2, "", "">> : f1 \in Formulas \cup {""}, f2 \in SecondFormulas \cup {""}}
    \cup {<<"", "", f3, "">> : f3 \in Formulas}
    \cup {<<f1, f2, f3, f4>> : f1 \in ChainFormulas, f2 \in ChainFormulas,
                              f3 \in ChainFormulas, f4 \in ChainFormulas}
    \cup {<<f1, "=A2", "=B2", "=A1">> : f1 \in UnsupportedFormulas}
    \cup {<<"=Lookup!A1", "", "", "=A1", f5>> : f5 \in LookupFormulas}
    \cup {<<f1, "=A1", "", "">> : f1 \in EarlyFormulas}
    \cup {<<EarlyIndexFormula, "", "", "", "=B1">>}

(***************************************************************************)
(* The run: _resolve_xlsm_formulas, step by step                           *)
(***************************************************************************)
\* a run about to start on the workbook (f, c): both views loaded, nothing else yet
Start(f, c, n, out1) ==
  /\ wb_formulas = f
  /\ wb_cached = c
  /\ cell_values = <<>>
  /\ formula_cells = <<>>
  /\ remaining = <<>>
  /\ newly_resolved = 0
  /\ pass_num = 0
  /\ cell_idx = 0
  /\ unresolved_count = 0
  /\ wb_out = NoWorkbook
  /\ pc = "loaded"
  /\ raised = ""
  /\ run_no = n
  /\ first_out = out1
  /\ evals = <<>>
  /\ call = NoCall
  /\ conv = NoConv
  /\ prior = NoPrior

Init ==
  \E lit \in Literals, layout \in Layouts, cached \in CachedValues :
    /\ (layout[1] = "" => cached = NoneV)
    /\ (layout[4] # "" => cached = NoneV /\ lit = LiteralList[1])
    /\ Start(Workbook(lit, layout, NoneV, "f"), Workbook(lit, layout, cached, "c"),
             1, NoWorkbook)

\* SeedCached gone wrong: the CellStore of the earlier run is filled further
SeedCached_SharedStore ==
  /\ pc = "loaded"
  /\ cell_values' = SeedCachedLoop(IterCells(wb_cached), prior.store)
  /\ pc' = "cached"
  /\ UNCHANGED <<wb_formulas, wb_cached, formula_cells, remaining, newly_resolved,
                 pass_num, cell_idx, unresolved_count, wb_out, raised, run_no,
                 first_out, evals, call, conv, prior>>

\* lines 43-49: the cached values of every sheet
SeedCached ==
  /\ pc = "loaded"
  /\ cell_values' = SeedCachedLoop(IterCells(wb_cached), <<>>)
  /\ pc' = "cached"
  /\ UNCHANGED <<wb_formulas, wb_cached, formula_cells, remaining, newly_resolved,
                 pass_num, cell_idx, unresolved_count, wb_out, raised, run_no,
                 first_out, evals, call, conv, prior>>

\* lines 52-58: the literals of every sheet
SeedLiterals ==
  /\ pc = "cached"
  /\ cell_values' = SeedLiteralLoop(IterCells(wb_formulas), cell_values)
  /\ pc' = "seeded"
  /\ UNCHANGED <<wb_formulas, wb_cached, formula_cells, remaining, newly_resolved,
                 pass_num, cell_idx, unresolved_count, wb_out, raised, run_no,
                 first_out, evals, call, conv, prior>>

\* lines 330-342: the outstanding list
CollectFormulaCells ==
  /\ pc = "seeded"
  /\ formula_cells' = CollectLoop(IterCells(wb_formulas), cell_values)
  /\ evals' = [k \in {<<fc[1], fc[2]>> : fc \in
                      {formula_cells'[n] : n \in 1..Len(formula_cells')}} |-> 0]
  /\ pass_num' = 0
  /\ pc' = "pass"
  /\ UNCHANGED <<wb_formulas, wb_cached, cell_values, remaining, newly_resolved,
                 cell_idx, unresolved_count, wb_out, raised, run_no, first_out, call, conv, prior>>

\* lines 343-345: a pass begins
BeginPass ==
  /\ pc = "pass"
  /\ newly_resolved' = 0
  /\ remaining' = <<>>
  /\ cell_idx' = 1
  /\ pc' = "cells"
  /\ UNCHANGED <<wb_formulas, wb_cached, cell_values, formula_cells, pass_num,
                 unresolved_count, wb_out, raised, run_no, first_out, evals, call, conv, prior>>

\* ResolveCell gone wrong: the value is stored under (coordinate, sheet)
ResolveCell_SwappedKey ==
  /\ pc = "cells"
  /\ cell_idx <= Len(formula_cells)
  /\ \E fc \in {formula_cells[cell_idx]} :
     \E resolved \in {_resolve_formula(fc[3], fc[1])} :
        /\ evals' = [evals EXCEPT ![<<fc[1], fc[2]>>] = @ + 1]
        /\ IF IsRaise(resolved)
           THEN /\ raised' = resolved.s
                /\ pc' = "raised"
                /\ UNCHANGED <<cell_values, newly_resolved, remaining, cell_idx>>
           ELSE /\ cell_idx' = cell_idx + 1
                /\ UNCHANGED <<raised, pc>>
                /\ IF ~IsNone(resolved)
                   THEN /\ cell_values' = Put(cell_values, <<fc[2], fc[1]>>, resolved)
                        /\ newly_resolved' = newly_resolved + 1
                        /\ UNCHANGED remaining
                   ELSE /\ remaining' = Append(remaining, fc)
                        /\ UNCHANGED <<cell_values, newly_resolved>>
  /\ UNCHANGED <<wb_formulas, wb_cached, formula_cells, pass_num, unresolved_count,
                 wb_out, run_no, first_out, call, conv, prior>>

\* ResolveCell gone wrong: a resolved cell is not counted
ResolveCell_Uncounted ==
  /\ pc = "cells"
  /\ cell_idx <= Len(formula_cells)
  /\ \E fc \in {formula_cells[cell_idx]} :
     \E resolved \in {_resolve_formula(fc[3], fc[1])} :
        /\ evals' = [evals EXCEPT ![<<fc[1], fc[2]>>] = @ + 1]
        /\ IF IsRaise(resolved)
           THEN /\ raised' = resolved.s
                /\ pc' = "raised"
                /\ UNCHANGED <<cell_values, newly_resolved, remaining, cell_idx>>
           ELSE /\ cell_idx' = cell_idx + 1
                /\ UNCHANGED <<raised, pc>>
                /\ IF ~IsNone(resolved)
                   THEN /\ cell_values' = Put(cell_values, <<fc[1], fc[2]>>, resolved)
                        /\ UNCHANGED <<remaining, newly_resolved>>
                   ELSE /\ remaining' = Append(remaining, fc)
                        /\ UNCHANGED <<cell_values, newly_resolved>>
  /\ UNCHANGED <<wb_formulas, wb_cached, formula_cells, pass_num, unresolved_count,
                 wb_out, run_no, first_out, call, conv, prior>>

\* lines 346-352: the pass evaluates the next outstanding cell
ResolveCell ==
  /\ pc = "cells"
  /\ cell_idx <= Len(formula_cells)
  /\ \E fc \in {formula_cells[cell_idx]} :
     \E resolved \in {_resolve_formula(fc[3], fc[1])} :
        /\ evals' = [evals EXCEPT ![<<fc[1], fc[2]>>] = @ + 1]
        /\ IF IsRaise(resolved)
           THEN /\ raised' = resolved.s
                /\ pc' = "raised"
                /\ UNCHANGED <<cell_values, newly_resolved, remaining, cell_idx>>
           ELSE /\ cell_idx' = cell_idx + 1
                /\ UNCHANGED <<raised, pc>>
                /\ IF ~IsNone(resolved)
                   THEN /\ cell_values' = Put(cell_values, <<fc[1], fc[2]>>, resolved)
                        /\ newly_resolved' = newly_resolved + 1
                        /\ UNCHANGED remaining
                   ELSE /\ remaining' = Append(remaining, fc)
                        /\ UNCHANGED <<cell_values, newly_resolved>>
  /\ UNCHANGED <<wb_formulas, wb_cached, formula_cells, pass_num, unresolved_count,
                 wb_out, run_no, first_out, call, conv, prior>>

\* EndPass gone wrong: the list of the pass is kept for the next pass
EndPass_KeepsList ==
  /\ pc = "cells"
  /\ cell_idx > Len(formula_cells)
  /\ IF newly_resolved = 0 \/ pass_num + 1 >= max_passes
     THEN pc' = "passes_done" /\ UNCHANGED pass_num
     ELSE pc' = "pass" /\ pass_num' = pass_num + 1
  /\ UNCHANGED <<wb_formulas, wb_cached, cell_values, formula_cells, remaining,
                 newly_resolved, cell_idx, unresolved_count, wb_out, raised, run_no,
                 first_out, evals, call, conv, prior>>

\* EndPass gone wrong: another pass follows whenever something resolved
EndPass_IgnoresBudget ==
  /\ pc = "cells"
  /\ cell_idx > Len(formula_cells)
  /\ formula_cells' = remaining
  /\ IF newly_resolved = 0
     THEN pc' = "passes_done" /\ UNCHANGED pass_num
     ELSE pc' = "pass" /\ pass_num' = pass_num + 1
  /\ UNCHANGED <<wb_formulas, wb_cached, cell_values, remaining, newly_resolved,
                 cell_idx, unresolved_count, wb_out, raised, run_no, first_out,
                 evals, call, conv, prior>>

\* lines 353-355 and 343: the pass ends; another one follows unless nothing
\* resolved or the budget is spent
EndPass ==
  /\ pc = "cells"
  /\ cell_idx > Len(formula_cells)
  /\ formula_cells' = remaining
  /\ IF newly_resolved = 0 \/ pass_num + 1 >= max_passes
     THEN pc' = "passes_done" /\ UNCHANGED pass_num
     ELSE pc' = "pass" /\ pass_num' = pass_num + 1
  /\ UNCHANGED <<wb_formulas, wb_cached, cell_values, remaining, newly_resolved,
                 cell_idx, unresolved_count, wb_out, raised, run_no, first_out,
                 evals, call, conv, prior>>

\* lines 357-359: the tally
Tally ==
  /\ pc = "passes_done"
  /\ unresolved_count' = Len(formula_cells)
  /\ pc' = "tallied"
  /\ UNCHANGED <<wb_formulas, wb_cached, cell_values, formula_cells, remaining,
                 newly_resolved, pass_num, cell_idx, wb_out, raised, run_no,
                 first_out, evals, call, conv, prior>>

\* lines 361-391: the values-only workbook is built and saved
WriteWorkbook ==
  /\ pc = "tallied"
  /\ wb_out' = WriteSheets(wb_formulas, cell_values)
  /\ pc' = "saved"
  /\ UNCHANGED <<wb_formulas, wb_cached, cell_values, formula_cells, remaining,
                 newly_resolved, pass_num, cell_idx, unresolved_count, raised,
                 run_no, first_out, evals, call, conv, prior>>

\* lines 21-40, called on the file the first run saved
Rerun ==
  /\ pc = "saved"
  /\ run_no = 1
  /\ wb_formulas' = wb_out
  /\ wb_cached' = LoadCached(wb_out)
  /\ first_out' = wb_out
  /\ run_no' = 2
  /\ cell_values' = <<>>
  /\ formula_cells' = <<>>
  /\ remaining' = <<>>
  /\ newly_resolved' = 0
  /\ pass_num' = 0
  /\ cell_idx' = 0
  /\ unresolved_count' = 0
  /\ wb_out' = NoWorkbook
  /\ pc' = "loaded"
  /\ evals' = <<>>
  /\ prior' = [f |-> wb_formulas, c |-> wb_cached, store |-> cell_values,
               unresolved |-> formula_cells, out |-> wb_out, raised |-> raised]
  /\ UNCHANGED <<raised, call, conv>>

\* lines 21-40, called once more on the source of run 1: after run 2 has ended,
\* or right after run 1 if that one ended in an exception
RunAgain ==
  /\ \/ /\ pc = "saved" /\ run_no = 2
        /\ wb_formulas' = prior.f /\ wb_cached' = prior.c
        /\ UNCHANGED prior
     \/ /\ pc = "raised" /\ run_no = 1
        /\ UNCHANGED <<wb_formulas, wb_cached>>
        /\ prior' = [f |-> wb_formulas, c |-> wb_cached, store |-> cell_values,
                     unresolved |-> formula_cells, out |-> wb_out, raised |-> raised]
  /\ run_no' = 3
  /\ cell_values' = <<>>
  /\ formula_cells' = <<>>
  /\ remaining' = <<>>
  /\ newly_resolved' = 0
  /\ pass_num' = 0
  /\ cell_idx' = 0
  /\ unresolved_count' = 0
  /\ wb_out' = NoWorkbook
  /\ pc' = "loaded"
  /\ raised' = ""
  /\ evals' = <<>>
  /\ UNCHANGED <<first_out, call, conv>>

Next ==
  \/ SeedCached
  \/ SeedLiterals
  \/ CollectFormulaCells
  \/ BeginPass
  \/ ResolveCell
  \/ EndPass
  \/ Tally
  \/ WriteWorkbook
  \/ Rerun
  \/ RunAgain

Spec == Init /\ [][Next]_vars

(***************************************************************************)
(* The range operations on their own: a CellStore is drawn, then           *)
(* _match_in_range or _resolve_vlookup is called on it, and `call`        *)
(* records the arguments and the result of the call.                       *)
(*                                                                         *)
(*   Lookup      B       C            Data     A                           *)
(*     1         "k"     "v"            1      "X"                         *)
(*     2         b2      42                                                *)
(*     3         b3                                                        *)
(*     4         b4      7                                                 *)
(***************************************************************************)
KeysB2 == {NoneV, StrV("X"), IntV(10)}
KeysB3 == {NoneV, StrV(" X "), IntV(10)}
KeysB4 == {StrV("X"), StrV("10"), StrV("x")}

\* the CellStore of the sheets above; a cell without a value has no entry
OpsStore(b2, b3, b4) ==
  LET all == (<<"Lookup", "B1">> :> StrV("k")) @@ (<<"Lookup", "C1">> :> StrV("v"))
               @@ (<<"Lookup", "B2">> :> b2) @@ (<<"Lookup", "C2">> :> IntV(42))
               @@ (<<"Lookup", "B3">> :> b3) @@ (<<"Lookup", "B4">> :> b4)
               @@ (<<"Lookup", "C4">> :> IntV(7)) @@ (<<"Data", "A1">> :> StrV("X"))
  IN [key \in {k \in DOMAIN all : ~IsNone(all[k])} |-> all[key]]

\* the lookup values of the MATCH calls
MatchLookups ==
  {StrV("X"), IntV(10), StrV("10 "), StrV("Q"), FloatV(10 * FloatOne), StrV("v")}

\* the ranges of the MATCH calls: the text handed to the code, the coordinates of
\* the range in scan order, and whether it is a single row or a single column
MatchRanges ==
  {[text |-> "B2:B4", cells |-> <<"B2", "B3", "B4">>, oneD |-> TRUE],
   [text |-> "$B$2:$B$4", cells |-> <<"B2", "B3", "B4">>, oneD |-> TRUE],
   [text |-> "b1:b4", cells |-> <<"B1", "B2", "B3", "B4">>, oneD |-> TRUE],
   [text |-> "B1:C1", cells |-> <<"B1", "C1">>, oneD |-> TRUE],
   [text |-> "A1:C1", cells |-> <<"A1", "B1", "C1">>, oneD |-> TRUE],
   [text |-> "E2:E4", cells |-> <<"E2", "E3", "E4">>, oneD |-> TRUE],
   [text |-> "B3:B3", cells |-> <<"B3">>, oneD |-> TRUE],
   [text |-> "B2:C4", cells |-> <<"B2", "C2", "B3", "C3", "B4", "C4">>, oneD |-> FALSE],
   [text |-> "B1:C2", cells |-> <<"B1", "C1", "B2", "C2">>, oneD |-> FALSE]}

\* the lookup expressions of the VLOOKUP calls (evaluated on sheet Data), each with
\* the value it stands for
VlookupExprs ==
  {[text |-> "\"X\"", val |-> StrV("X")],
   [text |-> "A1", val |-> StrV("X")],
   [text |-> "10", val |-> IntV(10)],
   [text |-> "\"x\"", val |-> StrV("x")],
   [text |-> "\"Q\"", val |-> StrV("Q")],
   [text |-> "Z9", val |-> NoneV]}

\* the table ranges of the VLOOKUP calls: the text handed to the code, the
\* coordinates of the first column top to bottom, and those of the columns from
\* the first one on
Tables ==
  {[text |-> "Lookup!B2:C4", keys |-> <<"B2", "B3", "B4">>,
    cols |-> << <<"B2", "B3", "B4">>, <<"C2", "C3", "C4">> >>],
   [text |-> "'Lookup'!$B$2:$C$4", keys |-> <<"B2", "B3", "B4">>,
    cols |-> << <<"B2", "B3", "B4">>, <<"C2", "C3", "C4">> >>],
   [text |-> "Lookup!B3:C4", keys |-> <<"B3", "B4">>,
    cols |-> << <<"B3", "B4">>, <<"C3", "C4">> >>]}

InitOps ==
  \E b2 \in KeysB2, b3 \in KeysB3, b4 \in KeysB4 :
    /\ wb_formulas = NoWorkbook
    /\ wb_cached = NoWorkbook
    /\ cell_values = OpsStore(b2, b3, b4)
    /\ formula_cells = <<>>
    /\ remaining = <<>>
    /\ newly_resolved = 0
    /\ pass_num = 0
    /\ cell_idx = 0
    /\ unresolved_count = 0
    /\ wb_out = NoWorkbook
    /\ pc = "ops"
    /\ raised = ""
    /\ run_no = 1
    /\ first_out = NoWorkbook
    /\ evals = <<>>
    /\ call = NoCall
    /\ conv = NoConv
    /\ prior = NoPrior

\* a call of _match_in_range(lookup_val, "Lookup", range_str)
MatchCall ==
  /\ pc = "ops"
  /\ \E lv \in MatchLookups, rg \in MatchRanges :
       call' = [fn |-> "match", lookup |-> lv, text |-> rg.text, cells |-> rg.cells,
                cols |-> <<>>, oneD |-> rg.oneD, row_index |-> 0, col_index |-> 0,
                result |-> _match_in_range(lv, "Lookup", rg.text)]
  /\ pc' = "returned"
  /\ UNCHANGED <<wb_formulas, wb_cached, cell_values, formula_cells, remaining,
                 newly_resolved, pass_num, cell_idx, unresolved_count, wb_out,
                 raised, run_no, first_out, evals, conv, prior>>

\* a call of _resolve_vlookup(lookup_expr, table_range, col_index, "Data")
VlookupCall ==
  /\ pc = "ops"
  /\ \E ex \in VlookupExprs, tb \in Tables, col_index \in 1..2 :
       call' = [fn |-> "vlookup", lookup |-> ex.val, text |-> tb.text, cells |-> tb.keys,
                cols |-> tb.cols, oneD |-> FALSE, row_index |-> 0,
                col_index |-> col_index,
                result |-> _resolve_vlookup(ex.text, tb.text, col_index, "Data")]
  /\ pc' = "returned"
  /\ UNCHANGED <<wb_formulas, wb_cached, cell_values, formula_cells, remaining,
                 newly_resolved, pass_num, cell_idx, unresolved_count, wb_out,
                 raised, run_no, first_out, evals, conv, prior>>

\* the ranges of the INDEX calls: the text handed to the code and, when the text
\* is a range, the column letters and the row numbers counted from its start,
\* past its declared end too: cols = <<letters, rows>>
IndexRanges ==
  {[text |-> "B2:C4", cols |-> << <<"B", "C", "D", "E">>, <<"2", "3", "4", "5">> >>],
   [text |-> "$B$2:$C$4", cols |-> << <<"B", "C", "D", "E">>, <<"2", "3", "4", "5">> >>],
   [text |-> "B2:B3", cols |-> << <<"B", "C", "D", "E">>, <<"2", "3", "4", "5">> >>],
   [text |-> "b1:c1", cols |-> << <<"B", "C", "D", "E">>, <<"1", "2", "3", "4">> >>],
   [text |-> "A1:A1", cols |-> << <<"A", "B", "C", "D">>, <<"1", "2", "3", "4">> >>],
   [text |-> "B2", cols |-> <<>>],
   [text |-> "B2:C", cols |-> <<>>],
   [text |-> "2B:C4", cols |-> <<>>]}

\* the offsets of the INDEX calls
MaxOffset == 3

\* a call of _get_range_value("Lookup", range_str, row_idx, col_idx)
IndexCall ==
  /\ pc = "ops"
  /\ \E rg \in IndexRanges, row_idx \in 1..MaxOffset, col_idx \in 1..MaxOffset :
       call' = [fn |-> "index", lookup |-> NoneV, text |-> rg.text, cells |-> <<>>,
                cols |-> rg.cols, oneD |-> FALSE, row_index |-> row_idx,
                col_index |-> col_idx,
                result |-> _get_range_value("Lookup", rg.text, row_idx, col_idx)]
  /\ pc' = "returned"
  /\ UNCHANGED <<wb_formulas, wb_cached, cell_values, formula_cells, remaining,
                 newly_resolved, pass_num, cell_idx, unresolved_count, wb_out,
                 raised, run_no, first_out, evals, conv, prior>>

\* the column numbers handed to _num_to_col_letter: 1 .. MaxColumn (703 = AAA)
MaxColumn == 703

\* the column letters handed to _col_letter_to_num: every one- and two-letter
\* column and some of three letters
ColumnLetters ==
  {CharAt(UpperChars, i) : i \in 1..26}
    \cup {CharAt(UpperChars, i) \o CharAt(UpperChars, j) : i \in 1..26, j \in 1..26}
    \cup {"AAA", "AAZ", "XFD", "ZZZ"}

\* a call of _num_to_col_letter(n)
NumToColLetterCall ==
  /\ pc = "ops"
  /\ \E n \in 1..MaxColumn :
       call' = [fn |-> "num_to_col_letter", lookup |-> NoneV, text |-> "", cells |-> <<>>,
                cols |-> <<>>, oneD |-> FALSE, row_index |-> 0, col_index |-> n,
                result |-> StrV(_num_to_col_letter(n))]
  /\ pc' = "returned"
  /\ UNCHANGED <<wb_formulas, wb_cached, cell_values, formula_cells, remaining,
                 newly_resolved, pass_num, cell_idx, unresolved_count, wb_out,
                 raised, run_no, first_out, evals, conv, prior>>

\* a call of _col_letter_to_num(col_str)
ColLetterToNumCall ==
  /\ pc = "ops"
  /\ \E col_str \in ColumnLetters :
       call' = [fn |-> "col_letter_to_num", lookup |-> NoneV, text |-> col_str,
                cells |-> <<>>, cols |-> <<>>, oneD |-> FALSE, row_index |-> 0,
                col_index |-> 0, result |-> IntV(_col_letter_to_num(col_str))]
  /\ pc' = "returned"
  /\ UNCHANGED <<wb_formulas, wb_cached, cell_values, formula_cells, remaining,
                 newly_resolved, pass_num, cell_idx, unresolved_count, wb_out,
                 raised, run_no, first_out, evals, conv, prior>>

NextOps ==
  \/ MatchCall
  \/ VlookupCall
  \/ IndexCall
  \/ NumToColLetterCall
  \/ ColLetterToNumCall

SpecOps == InitOps /\ [][NextOps]_vars

(***************************************************************************)
(* parse_excel_to_markdown: the caller of the resolver.  conv holds        *)
(*   suffix         file_path.suffix                                       *)
(*   parse_suffix   parse_path.suffix                                      *)
(*   has_resolved   resolved_path is not None                              *)
(*   tmp_created    the resolver saved <stem>_resolved.xlsx in this call   *)
(*   tmp_exists     that file is on disk                                   *)
(*   unlink_failed  resolved_path.unlink() raised OSError                  *)
(*   markdown_text  the text parsed so far, None for none                  *)
(*   exc            the exception the call ended with, "" for none         *)
(* What the resolver, Docling, pandas and the file system do is the        *)
(* environment's choice at every step.                                     *)
(***************************************************************************)
Suffixes == {".xlsm", ".XLSM", ".Xlsm", ".xlsx", ".xls", ".pdf"}

\* the texts a parser may return; pandas joins no parts to '' for empty sheets
DoclingTexts == {StrV("| a |")}
PandasTexts == {StrV("| a |"), StrV("")}

\* lines 483-502: the call begins
InitParse ==
  \E sfx \in Suffixes :
    /\ wb_formulas = NoWorkbook
    /\ wb_cached = NoWorkbook
    /\ cell_values = <<>>
    /\ formula_cells = <<>>
    /\ remaining = <<>>
    /\ newly_resolved = 0
    /\ pass_num = 0
    /\ cell_idx = 0
    /\ unresolved_count = 0
    /\ wb_out = NoWorkbook
    /\ pc = "parse"
    /\ raised = ""
    /\ run_no = 1
    /\ first_out = NoWorkbook
    /\ evals = <<>>
    /\ call = NoCall
    /\ conv = [NoConv EXCEPT !.pc = "start", !.suffix = sfx, !.parse_suffix = sfx]
    /\ prior = NoPrior

\* every variable but conv
resolver_vars ==
  <<wb_formulas, wb_cached, cell_values, formula_cells, remaining, newly_resolved,
    pass_num, cell_idx, unresolved_count, wb_out, pc, raised, run_no, first_out,
    evals, call, prior>>

\* ResolveStage gone wrong: the resolver's exception leaves the call
ResolveStage_Propagates ==
  /\ conv.pc = "start"
  /\ IF Lower(conv.suffix) = ".xlsm"
     THEN \/ conv' = [conv EXCEPT !.pc = "resolved", !.has_resolved = TRUE,
                                   !.parse_suffix = ".xlsx", !.tmp_created = TRUE,
                                   !.tmp_exists = TRUE]
          \/ conv' = [conv EXCEPT !.pc = "raised", !.exc = "resolver"]
          \/ conv' = [conv EXCEPT !.pc = "raised", !.exc = "resolver",
                                   !.tmp_created = TRUE, !.tmp_exists = TRUE]
     ELSE conv' = [conv EXCEPT !.pc = "resolved"]
  /\ UNCHANGED resolver_vars

\* lines 503-508: an .xlsm file is resolved first; the resolver returns the path
\* of the file it saved, or raises (caught and logged): before it has saved a
\* file (lines 35-383) or after (lines 385-390)
ResolveStage ==
  /\ conv.pc = "start"
  /\ IF Lower(conv.suffix) = ".xlsm"
     THEN \/ conv' = [conv EXCEPT !.pc = "resolved", !.has_resolved = TRUE,
                                   !.parse_suffix = ".xlsx", !.tmp_created = TRUE,
                                   !.tmp_exists = TRUE]
          \/ conv' = [conv EXCEPT !.pc = "resolved"]
          \/ conv' = [conv EXCEPT !.pc = "resolved", !.tmp_created = TRUE,
                                   !.tmp_exists = TRUE]
     ELSE conv' = [conv EXCEPT !.pc = "resolved"]
  /\ UNCHANGED resolver_vars

\* lines 510-515: Docling returns a text or raises (caught and logged)
DoclingStage ==
  /\ conv.pc = "resolved"
  /\ \/ \E text \in DoclingTexts :
          conv' = [conv EXCEPT !.pc = "docling_done", !.markdown_text = text]
     \/ conv' = [conv EXCEPT !.pc = "docling_done"]
  /\ UNCHANGED resolver_vars

\* lines 517-519: without a text, an Excel file goes to pandas, which returns a
\* text or raises; nothing catches that exception
PandasStage ==
  /\ conv.pc = "docling_done"
  /\ IF IsNone(conv.markdown_text) /\ Lower(conv.parse_suffix) \in {".xlsx", ".xlsm"}
     THEN \/ \E text \in PandasTexts :
               conv' = [conv EXCEPT !.pc = "pandas_done", !.markdown_text = text]
          \/ conv' = [conv EXCEPT !.pc = "raised", !.exc = "pandas"]
     ELSE conv' = [conv EXCEPT !.pc = "pandas_done"]
  /\ UNCHANGED resolver_vars

\* lines 521-526: the resolved file, if there is one, is unlinked; an OSError is
\* passed over
CleanUp ==
  /\ conv.pc = "pandas_done"
  /\ IF conv.has_resolved /\ conv.tmp_exists
     THEN \/ conv' = [conv EXCEPT !.pc = "cleaned", !.tmp_exists = FALSE]
          \/ conv' = [conv EXCEPT !.pc = "cleaned", !.unlink_failed = TRUE]
     ELSE conv' = [conv EXCEPT !.pc = "cleaned"]
  /\ UNCHANGED resolver_vars

\* lines 528-534: no text is a RuntimeError; a text is written and the path of
\* the .md file returned, unless the write raises
Finish ==
  /\ conv.pc = "cleaned"
  /\ IF IsNone(conv.markdown_text)
     THEN conv' = [conv EXCEPT !.pc = "raised", !.exc = "RuntimeError"]
     ELSE \/ conv' = [conv EXCEPT !.pc = "returned"]
          \/ conv' = [conv EXCEPT !.pc = "raised", !.exc = "OSError"]
  /\ UNCHANGED resolver_vars

NextParse ==
  \/ ResolveStage
  \/ DoclingStage
  \/ PandasStage
  \/ CleanUp
  \/ Finish

SpecParse == InitParse /\ [][NextParse]_vars

(***************************************************************************)
(* Properties                                                              *)
(***************************************************************************)
\* the cells of sheet Data of a workbook
DataOf(wb) == wb.ws["Data"].cell

SlotCoords == <<"B1", "C1", "A2", "B2">>

\* the formula slot n of the source holds, "" when it holds none
SlotFormula(n) ==
  IF IsFormula(DataOf(wb_formulas)[Slots[n]]) THEN DataOf(wb_formulas)[Slots[n]].s ELSE ""

\* the cached value slot n of the source carries, the literal in Data!A1, and the
\* value written for slot n
CachedOf(n) == DataOf(wb_cached)[Slots[n]]
LiteralA1 == DataOf(wb_formulas)[<<1, 1>>]
WrittenFor(n) == DataOf(wb_out)[Slots[n]]

\* the cell Data!coord is in the outstanding (after the passes: unresolved) list
Outstanding(coord) ==
  \E k \in 1..Len(formula_cells) : formula_cells[k][1] = "Data" /\ formula_cells[k][2] = coord

InStore(coord) == <<"Data", coord>> \in DOMAIN cell_values

PassesOver == pc \in {"tallied", "saved"}

\* C1 (as claimed): no evaluation step raises; a run never ends in an exception.
C1_NoEvaluationRaises == pc # "raised"

\* C2 (as claimed): in the output workbook no cell that was a formula cell in the
\* source holds a string beginning with '='.
C2_NoFormulaStringWritten ==
  pc = "saved" =>
    \A name \in DOMAIN wb_formulas.ws :
      \A rc \in DOMAIN wb_formulas.ws[name].cell :
        IsFormula(wb_formulas.ws[name].cell[rc]) => ~IsFormula(wb_out.ws[name].cell[rc])

\* Data!A1 = 10, Data!A2 = "=ROUND(A1/3,2)" without a cached value, nothing else
C3_Scenario ==
  /\ run_no = 1
  /\ LiteralA1 = IntV(10)
  /\ SlotFormula(3) = "=ROUND(A1/3,2)"
  /\ SlotFormula(1) = "" /\ SlotFormula(2) = "" /\ SlotFormula(4) = ""

\* C3 (as claimed): in the scenario the run resolves A2 to 3.33: A2 is in the
\* CellStore with that value and is not in the unresolved list.
C3_RoundOfQuotientResolves ==
  (C3_Scenario /\ PassesOver) =>
    /\ InStore("A2")
    /\ cell_values[<<"Data", "A2">>] = FloatV(333 * Pow10(FloatPlaces - 2))
    /\ ~Outstanding("A2")

\* C3 (amended): in the scenario the run leaves A2 unresolved: A2 has no entry in
\* the CellStore, is the one cell of the unresolved list, and is written blank.
C3_RoundOfQuotientUnresolved ==
  (C3_Scenario /\ PassesOver) =>
    /\ ~InStore("A2")
    /\ Outstanding("A2")
    /\ unresolved_count = 1
    /\ (pc = "saved" => WrittenFor(3) = NoneV)

C3_Witness == C3_Scenario /\ pc = "saved" /\ evals[<<"Data", "A2">>] = 1

\* the inner expression of =IFERROR(<inner>,"")
InnerOf(f) == Strip(SubSeq(f, 10, Len(f) - 4))

\* C4 (as claimed): a formula =IFERROR(<inner>,"") whose inner expression cannot
\* be resolved (it evaluates to none or fails) evaluates to the empty string,
\* never to none or an error.
C4_IferrorYieldsEmptyString ==
  pc = "cells" =>
    \A k \in 1..Len(formula_cells) :
      formula_cells[k][3] \in IferrorFormulas =>
        \A inner \in {_resolve_index_match(InnerOf(formula_cells[k][3]), formula_cells[k][1])} :
          (IsNone(inner) \/ IsRaise(inner)) =>
            _resolve_formula(formula_cells[k][3], formula_cells[k][1]) = StrV("")

\* the direct same-sheet references to Data!A1
DirectToA1 == {"=A1", "=+A1", "=$A$1"}

NonEmptyLiteral(val) == ~IsNone(val) /\ val # StrV("")

\* C5 (as claimed): the value written for a formula cell whose formula is a direct
\* same-sheet reference to a cell holding a non-empty literal equals the literal,
\* whether or not the formula cell carries a cached value.
C5_DirectReferenceEqualsLiteral ==
  (pc = "saved" /\ run_no = 1) =>
    \A n \in 1..Len(Slots) :
      (SlotFormula(n) \in DirectToA1 /\ NonEmptyLiteral(LiteralA1)) =>
        WrittenFor(n) = LiteralA1

\* C5 (amended): the value written for such a formula cell equals the literal if
\* the cell carries no cached value, and equals the cached value if it carries one.
C5_DirectReferenceEqualsLiteralOrCached ==
  (pc = "saved" /\ run_no = 1) =>
    \A n \in 1..Len(Slots) :
      (SlotFormula(n) \in DirectToA1 /\ NonEmptyLiteral(LiteralA1)) =>
        WrittenFor(n) = (IF IsNone(CachedOf(n)) THEN LiteralA1 ELSE CachedOf(n))

C5_Witness ==
  /\ pc = "saved" /\ run_no = 1
  /\ SlotFormula(1) = "=$A$1" /\ IsNone(CachedOf(1))
  /\ LiteralA1 = StrV("X") /\ WrittenFor(1) = StrV("X")

\* A1 = literal v, B1 = "=A1", C1 = "=B1", no cached values
C6_Scenario ==
  /\ run_no = 1
  /\ ~IsNone(LiteralA1)
  /\ SlotFormula(1) = "=A1" /\ SlotFormula(2) = "=B1"
  /\ IsNone(CachedOf(1)) /\ IsNone(CachedOf(2))

\* C6: in the scenario a single run resolves both B1 and C1 to v: after the
\* passes both are in the CellStore with the value v, and both are written as v.
C6_ChainResolvesInOneRun ==
  (C6_Scenario /\ PassesOver) =>
    /\ InStore("B1") /\ cell_values[<<"Data", "B1">>] = LiteralA1
    /\ InStore("C1") /\ cell_values[<<"Data", "C1">>] = LiteralA1
    /\ ~Outstanding("B1") /\ ~Outstanding("C1")
    /\ (pc = "saved" => WrittenFor(1) = LiteralA1 /\ WrittenFor(2) = LiteralA1)

C6_Witness ==
  C6_Scenario /\ pc = "saved" /\ LiteralA1 = IntV(10) /\ WrittenFor(2) = IntV(10)

\* the formulas, one of every recognized shape, that reference Z9, a coordinate
\* nothing populates: those that evaluate to none and those that evaluate to ''
BlankShapes ==
  {"=Z9", "=ROUND(Z9,0)", "=INDEX('Lookup'!C2:C4,MATCH(Z9,'Lookup'!B2:B4,0))"}
EmptyStringShapes ==
  {"=IFERROR(INDEX('Lookup'!C2:C4,MATCH(Z9,'Lookup'!B2:B4,0)),\"\")",
   "=IF(Z9=0,\"\",Z9)", "=CONCATENATE(Z9)"}

C8_SecondRunChangesNothing ==
  run_no = 2 =>
    /\ formula_cells = <<>>
    /\ pc = "saved" => wb_out = first_out

\* C9: _match_in_range on a single-column or single-row range returns the
\* 1-based position, counted from the start of the range across cells without an
\* entry, of the first cell whose value equals the lookup value as trimmed text;
\* it returns none when no cell matches and when the range is not one-dimensional.
C9_MatchReturnsFirstPosition ==
  call.fn = "match" =>
    LET hits == {k \in 1..Len(call.cells) :
                   /\ <<"Lookup", call.cells[k]>> \in DOMAIN cell_values
                   /\ Strip(PyStr(cell_values[<<"Lookup", call.cells[k]>>]))
                        = Strip(PyStr(call.lookup))}
    IN IF call.oneD /\ hits # {}
       THEN call.result = IntV(CHOOSE k \in hits : \A j \in hits : k <= j)
       ELSE call.result = NoneV

C9_Witness ==
  /\ call.fn = "match" /\ call.text = "B2:B4" /\ call.lookup = StrV("X")
  /\ <<"Lookup", "B3">> \notin DOMAIN cell_values
  /\ call.result = IntV(3)

\* Python's == on two values
PyEq(a, b) ==
  \/ a.t \in {"int", "float"} /\ b.t \in {"int", "float"} /\ PyFloat(a).v = PyFloat(b).v
  \/ a.t = "str" /\ b.t = "str" /\ a.s = b.s

\* the value _resolve_vlookup is to return when rows are the positions of the
\* first-column cells that equal the lookup value
VlookupExpected(rows) ==
  IF IsNone(call.lookup) \/ rows = {} THEN NoneV
  ELSE LET r == CHOOSE k \in rows : \A j \in rows : k <= j
           key == <<"Lookup", call.cols[call.col_index][r]>>
       IN IF key \in DOMAIN cell_values THEN cell_values[key] ELSE NoneV

\* C10 (as claimed): _resolve_vlookup returns the CellStore value in column
\* firstColumn + columnIndex - 1 of the first row of the table whose first-column
\* value equals the resolved lookup value, and none if no row matches or the
\* lookup value resolves to none.
C10_VlookupFirstEqualKey ==
  call.fn = "vlookup" =>
    call.result =
      VlookupExpected({k \in 1..Len(call.cells) :
                         /\ <<"Lookup", call.cells[k]>> \in DOMAIN cell_values
                         /\ PyEq(cell_values[<<"Lookup", call.cells[k]>>], call.lookup)})

\* C10 (amended): as claimed, with "equals" read as in _match_in_range: the two
\* values are equal as trimmed text (the key " X " matches "X", the key "10"
\* matches 10).
C10_VlookupFirstSameTextKey ==
  call.fn = "vlookup" =>
    call.result =
      VlookupExpected({k \in 1..Len(call.cells) :
                         /\ <<"Lookup", call.cells[k]>> \in DOMAIN cell_values
                         /\ Strip(PyStr(cell_values[<<"Lookup", call.cells[k]>>]))
                              = Strip(PyStr(call.lookup))})

C10_Witness ==
  /\ call.fn = "vlookup" /\ call.text = "Lookup!B2:C4" /\ call.col_index = 2
  /\ call.lookup = StrV("X")
  /\ <<"Lookup", "B2">> \in DOMAIN cell_values /\ cell_values[<<"Lookup", "B2">>] = StrV("X")
  /\ call.result = IntV(42)

\* C11: _get_range_value returns the CellStore value at the coordinate col_idx
\* columns and row_idx rows (1-based) into the range, counted from its start and
\* not checked against its declared end, and none when the CellStore has no entry
\* there or the text is no range.
C11_IndexReturnsValueAtOffset ==
  call.fn = "index" =>
    call.result =
      IF call.cols = <<>> THEN NoneV
      ELSE LET key == <<"Lookup", call.cols[1][call.col_index]
                                    \o call.cols[2][call.row_index]>>
           IN IF key \in DOMAIN cell_values THEN cell_values[key] ELSE NoneV

\* row 3, column 2 of the two-row, one-column range B2:B3 is C4
C11_Witness ==
  /\ call.fn = "index" /\ call.text = "B2:B3"
  /\ call.row_index = 3 /\ call.col_index = 2
  /\ call.result = IntV(7)

\* the arguments of the CONCATENATE formulas, in order: a quoted literal (its text
\* without the quotes) or a reference to a cell of the formula's sheet
ConcatArgs(f) ==
  CASE f = "=CONCATENATE(\"a\",A1,\"b\")" ->
         <<[lit |-> TRUE, text |-> "a"], [lit |-> FALSE, text |-> "A1"],
           [lit |-> TRUE, text |-> "b"]>>
    [] f = "=CONCATENATE(\"=A1\")" -> <<[lit |-> TRUE, text |-> "=A1"]>>
    [] f = "=CONCATENATE(Z9)" -> <<[lit |-> FALSE, text |-> "Z9"]>>
    [] f = "=CONCATENATE(C1,\"x\")" ->
         <<[lit |-> FALSE, text |-> "C1"], [lit |-> TRUE, text |-> "x"]>>
    [] f = "=CONCATENATE(A1,\", \",A1)" ->
         <<[lit |-> FALSE, text |-> "A1"], [lit |-> TRUE, text |-> ", "],
           [lit |-> FALSE, text |-> "A1"]>>

RECURSIVE JoinArgs(_, _)
\* the join of the arguments args[i..] on sheet Data: the text of a literal, the
\* string form of a referenced value, '' for a reference without a value
JoinArgs(args, i) ==
  IF i > Len(args) THEN ""
  ELSE (IF args[i].lit THEN args[i].text
        ELSE IF InStore(args[i].text) THEN PyStr(cell_values[<<"Data", args[i].text>>])
        ELSE "")
       \o JoinArgs(args, i + 1)

\* the pass is about to evaluate a CONCATENATE formula
AtConcatenate ==
  /\ pc = "cells" /\ cell_idx <= Len(formula_cells)
  /\ formula_cells[cell_idx][3] \in ConcatenateFormulas

\* C12: the evaluation of a =CONCATENATE(arg, ...) cell stores, in that very
\* pass, the join in argument order of its quoted literals (without the quotes)
\* and the string forms of its referenced values, '' for an unresolved reference;
\* the cell does not stay outstanding.
C12_ConcatenateJoinsArguments ==
  [][AtConcatenate =>
       /\ cell_values' =
            Put(cell_values, <<formula_cells[cell_idx][1], formula_cells[cell_idx][2]>>,
                StrV(JoinArgs(ConcatArgs(formula_cells[cell_idx][3]), 1)))
       /\ remaining' = remaining]_vars

\* the passes are running: from the first pass's start to the last pass's end
PassesRunning == pc \in {"pass", "cells"}

\* the pass is about to evaluate an outstanding cell
AtCell == pc = "cells" /\ cell_idx <= Len(formula_cells)

\* C13: during the passes a step removes no CellStore entry and changes none;
\* the only entry a step adds is the one of the formula cell it evaluates, which
\* has no entry before, so that every formula cell's key is written at most once.
C13_StoreOnlyGrows ==
  [][PassesRunning =>
       /\ \A key \in DOMAIN cell_values :
            key \in DOMAIN cell_values' /\ cell_values'[key] = cell_values[key]
       /\ AtCell =>
            /\ <<formula_cells[cell_idx][1], formula_cells[cell_idx][2]>>
                 \notin DOMAIN cell_values
            /\ (DOMAIN cell_values') \ (DOMAIN cell_values)
                 \subseteq {<<formula_cells[cell_idx][1], formula_cells[cell_idx][2]>>}
       /\ ~AtCell => cell_values' = cell_values]_vars

\* B1 = "=C1" resolves in the second pass, after C1 = "=A1" resolved in the first
C13_Witness ==
  /\ pc = "saved" /\ run_no = 1
  /\ SlotFormula(1) = "=C1" /\ SlotFormula(2) = "=A1" /\ IsNone(CachedOf(1))
  /\ evals[<<"Data", "B1">>] = 2 /\ evals[<<"Data", "C1">>] = 1
  /\ InStore("B1") /\ InStore("C1")

\* the cell of sheet Data a formula of direct-reference, ROUND or INDEX/MATCH
\* (outside IFERROR) shape reads, "" for any other formula
StrictRef(f) ==
  CASE f \in {"=A1", "=+A1", "=$A$1", "=Data!A1", "=ROUND(A1,2)",
              "=INDEX('Lookup'!C2:C4,MATCH(A1,'Lookup'!B2:B4,0))",
              "=INDEX('Lookup'!C2:C4,MATCH(A1,'Lookup'!B2:B4,0))/0",
              "=INDEX('Lookup'!C2:C4,MATCH(VLOOKUP(A1,Lookup!B2:C4,1,FALSE),'Lookup'!B2:B4,0))"}
         -> "A1"
    [] f \in {"=B1", "=ROUND(B1,1)",
              "=INDEX('Lookup'!B2:C4,MATCH(B1,'Lookup'!B2:B4,0),MATCH(\"v\",'Lookup'!B1:C1,0))"}
         -> "B1"
    [] f = "=C1" -> "C1"
    [] f = "=A2" -> "A2"
    [] f = "=B2" -> "B2"
    [] f \in {"=Z9", "=ROUND(Z9,0)", "=INDEX('Lookup'!C2:C4,MATCH(Z9,'Lookup'!B2:B4,0))"}
         -> "Z9"
    [] OTHER -> ""

\* the cell of sheet Data a formula of IF or CONCATENATE shape reads, or the
\* lookup value of the INDEX/MATCH inside an IFERROR; "" for any other formula
LenientRef(f) ==
  CASE f \in {"=IF(A1=0,\"\",A1)", "=CONCATENATE(\"a\",A1,\"b\")",
              "=CONCATENATE(A1,\", \",A1)",
              "=IFERROR(INDEX('Lookup'!B2:C4,MATCH(A1,'Lookup'!B2:B4,0),MATCH(\"v\",'Lookup'!B1:C1,0)),\"\")",
              "=IFERROR(INDEX('Lookup'!B2:C4,MATCH(A1,'Lookup'!B2:B4,0),MATCH(\"v\",'Lookup'!B1:C1,0))/100,\"\")",
              "=IFERROR(INDEX('Lookup'!A2:A4,MATCH(A1,'Lookup'!B2:B4,0)),\"\")"}
         -> "A1"
    [] f \in {"=IF(C1=\"\",\"\",C1)", "=CONCATENATE(C1,\"x\")"} -> "C1"
    [] f \in {"=IF(Z9=0,\"\",Z9)", "=CONCATENATE(Z9)",
              "=IFERROR(INDEX('Lookup'!C2:C4,MATCH(Z9,'Lookup'!B2:B4,0)),\"\")"}
         -> "Z9"
    [] OTHER -> ""

\* Data!coord is a formula cell of the source that has no CellStore entry (yet)
Unresolved(coord) ==
  /\ \E n \in 1..Len(Slots) : SlotCoords[n] = coord /\ SlotFormula(n) # ""
  /\ ~InStore(coord)

\* the formula cell in slot n has been evaluated in this run
Evaluated(n) ==
  /\ <<"Data", SlotCoords[n]>> \in DOMAIN evals
  /\ evals[<<"Data", SlotCoords[n]>>] >= 1

WithinBudget ==
  /\ pass_num < max_passes
  /\ \A key \in DOMAIN evals : evals[key] <= max_passes
  /\ (pc = "pass" /\ pass_num >= 1) => newly_resolved > 0

\* how far the loop has come: the passes begun and the position within the pass
LoopRank ==
  pass_num * (Len(Slots) + 2) + (IF pc = "cells" THEN cell_idx ELSE 0)

\* C15: the resolution loop always terminates: it runs at most max_passes passes,
\* evaluates no outstanding cell more than max_passes times, begins no pass after
\* one that resolved nothing, and every step within the loop (a step is always
\* possible there) brings it closer to its end, self-referencing and mutually
\* referencing formulas included.
C15_LoopTerminatesWithinBudget ==
  [][/\ WithinBudget /\ WithinBudget'
     /\ PassesRunning =>
          /\ LoopRank < max_passes * (Len(Slots) + 2)
          /\ pc = "cells" => (cell_idx >= 1 /\ cell_idx <= Len(formula_cells) + 1)
          /\ PassesRunning' => LoopRank' > LoopRank
          /\ ~PassesRunning' => pc' \in {"passes_done", "raised"}]_vars

\* B1 = "=C1", C1 = "=A2", A2 = "=B2", B2 = "=A1": B1 is evaluated in all three
\* passes and is still unresolved when the budget is spent
C15_Witness ==
  /\ pc = "passes_done" /\ run_no = 1 /\ pass_num = max_passes - 1
  /\ SlotFormula(1) = "=C1" /\ SlotFormula(2) = "=A2"
  /\ SlotFormula(3) = "=B2" /\ SlotFormula(4) = "=A1"
  /\ evals[<<"Data", "B1">>] = max_passes /\ ~InStore("B1") /\ InStore("C1")

\* parse_excel_to_markdown has returned or raised
ParseOver == conv.pc \in {"returned", "raised"}

\* C16 (as claimed): when parse_excel_to_markdown has returned or raised, the
\* resolved temporary workbook it created is deleted (unless the file system
\* refused the unlink), on every path through the conversion stage.
C16_TemporaryFileDeleted ==
  (ParseOver /\ conv.tmp_created /\ ~conv.unlink_failed) => ~conv.tmp_exists

\* the coordinates of the cells of a two-row, three-column and of a four-row,
\* three-column sheet
CoordNames ==
  [rc \in (1..4) \X (1..3) |->
     <<"A1", "B1", "C1", "A2", "B2", "C2", "A3", "B3", "C3", "A4", "B4", "C4">>
       [(rc[1] - 1) * 3 + rc[2]]]

\* what the writer is to put into the cell rc of sheet name
ExpectedCell(name, rc) ==
  LET val == wb_formulas.ws[name].cell[rc]
      key == <<name, CoordNames[rc]>>
  IN IF IsStr(val) /\ val.s # "" /\ CharAt(val.s, 1) = "="
     THEN (IF key \in DOMAIN cell_values THEN cell_values[key] ELSE NoneV)
     ELSE val

\* C17: the writer gives the output workbook the source's sheet names in the
\* source's order and, cell by cell at the same (row, column), the source's
\* value for a non-formula cell and the CellStore value of (sheet, coordinate),
\* or an empty value when there is none, for a formula cell; it leaves the
\* CellStore as it is.
C17_WriterFrame ==
  [][pc = "tallied" =>
       /\ cell_values' = cell_values
       /\ wb_out'.sheetnames = wb_formulas.sheetnames
       /\ DOMAIN wb_out'.ws = DOMAIN wb_formulas.ws
       /\ \A name \in DOMAIN wb_formulas.ws :
            /\ DOMAIN wb_out'.ws[name].cell = DOMAIN wb_formulas.ws[name].cell
            /\ \A rc \in DOMAIN wb_formulas.ws[name].cell :
                 wb_out'.ws[name].cell[rc] = ExpectedCell(name, rc)]_vars

\* A1 = "X" is copied, B1 = "=A1" is written as "X", C1 = "=ROUND(B1,1)" as "X"
\* too, and the empty A2 stays empty
C17_Witness ==
  /\ pc = "saved" /\ run_no = 1
  /\ LiteralA1 = StrV("X") /\ DataOf(wb_out)[<<1, 1>>] = StrV("X")
  /\ SlotFormula(1) = "=A1" /\ IsNone(CachedOf(1)) /\ WrittenFor(1) = StrV("X")
  /\ SlotFormula(2) = "=ROUND(B1,1)" /\ WrittenFor(2) = StrV("X")
  /\ WrittenFor(3) = NoneV
  /\ wb_out.sheetnames = <<"Data", "Lookup">>
  /\ wb_out.ws["Lookup"].cell[<<2, 3>>] = IntV(42)

AtFailedIndexMatch ==
  /\ AtCell
  /\ formula_cells[cell_idx][3] \in IndexFormulas \cup MixedFormulas
  /\ IsNone(_resolve_index_match(Tail(formula_cells[cell_idx][3]),
                                 formula_cells[cell_idx][1]))

\* the evaluation yields none: the cell stays outstanding and gets no entry
StaysOutstanding ==
  /\ remaining' = Append(remaining, formula_cells[cell_idx])
  /\ cell_values' = cell_values

\* C19 (as claimed): a formula recognized as INDEX/MATCH whose INDEX/MATCH
\* evaluation yields none evaluates to none; the IF, ROUND and CONCATENATE logic
\* has no part in its result.
C19_IndexMatchExclusive ==
  [][AtFailedIndexMatch => StaysOutstanding]_vars

\* C19 (amended): a formula recognized as INDEX/MATCH whose INDEX/MATCH
\* evaluation yields none is passed on to the IF, ROUND and CONCATENATE logic:
\* an =INDEX(...) formula and the ROUND of an INDEX/MATCH evaluate to none, the
\* IF with an INDEX/MATCH as its value evaluates to ''.
C19_IndexMatchFallsThrough ==
  [][AtFailedIndexMatch =>
       IF formula_cells[cell_idx][3]
            = "=IF(A1=0,\"\",INDEX('Lookup'!C2:C4,MATCH(A1,'Lookup'!B2:B4,0)))"
       THEN /\ cell_values' =
                 Put(cell_values,
                     <<formula_cells[cell_idx][1], formula_cells[cell_idx][2]>>, StrV(""))
            /\ remaining' = remaining
       ELSE StaysOutstanding]_vars

\* with A1 = "X" the IF with the INDEX/MATCH inside is written as ''
C19_Witness ==
  /\ pc = "saved" /\ run_no = 1 /\ LiteralA1 = StrV("X")
  /\ SlotFormula(1) = "=IF(A1=0,\"\",INDEX('Lookup'!C2:C4,MATCH(A1,'Lookup'!B2:B4,0)))"
  /\ IsNone(CachedOf(1))
  /\ evals[<<"Data", "B1">>] = 1 /\ WrittenFor(1) = StrV("")

\* slot n of the source holds a formula of no recognized shape and carries no
\* cached value
UnsupportedSlot(n) ==
  SlotFormula(n) \in UnsupportedFormulas /\ IsNone(CachedOf(n))

\* the cell Data!coord has been put back on the list of this pass
PutBack(coord) ==
  \E k \in 1..Len(remaining) : remaining[k][1] = "Data" /\ remaining[k][2] = coord

\* the cell Data!coord has had its turn in the pass that is running
HadItsTurn(coord) ==
  \E k \in 1..Len(formula_cells) :
    formula_cells[k][1] = "Data" /\ formula_cells[k][2] = coord /\ k < cell_idx

CachedSlot(n) == SlotFormula(n) # "" /\ ~IsNone(CachedOf(n))

\* the cell Data!coord has been handed to the evaluator in this run
HandedToEvaluator(coord) ==
  /\ <<"Data", coord>> \in DOMAIN evals
  /\ evals[<<"Data", coord>>] >= 1

\* C21: a formula cell with a cached value has that value in the CellStore from
\* the seeding on, is never outstanding and never evaluated; a formula =B1 next
\* to it resolves to the cached value in the first pass; the output workbook
\* holds the cached value for it, whatever its formula would give.
C21_CachedCellIsResolved ==
  \A n \in 1..Len(Slots) :
    CachedSlot(n) =>
      /\ ~Outstanding(SlotCoords[n])
      /\ ~PutBack(SlotCoords[n])
      /\ ~HandedToEvaluator(SlotCoords[n])
      /\ pc \notin {"loaded", "raised"} =>
            /\ InStore(SlotCoords[n])
            /\ cell_values[<<"Data", SlotCoords[n]>>] = CachedOf(n)
      /\ (pc \in {"passes_done", "tallied", "saved"} /\ n = 1
            /\ SlotFormula(2) = "=B1") =>
            /\ evals[<<"Data", "C1">>] = 1
            /\ cell_values[<<"Data", "C1">>] = CachedOf(1)
      /\ pc = "saved" => WrittenFor(n) = CachedOf(n)

\* B1 = "=A1" with A1 = 10 carries the cached value 7 and C1 = "=B1": both are
\* written as 7
C21_Witness ==
  /\ pc = "saved" /\ run_no = 1
  /\ LiteralA1 = IntV(10) /\ SlotFormula(1) = "=A1" /\ CachedOf(1) = IntV(7)
  /\ SlotFormula(2) = "=B1"
  /\ WrittenFor(1) = IntV(7) /\ WrittenFor(2) = IntV(7)
  /\ evals = (<<"Data", "C1">> :> 1)

\* the coordinates of a sheet of three columns, row by row
CoordList ==
  <<"A1", "B1", "C1", "A2", "B2", "C2", "A3", "B3", "C3", "A4", "B4", "C4">>

\* the place of an outstanding cell in sheet order, then row-major order
ListRank(fc) ==
  (CHOOSE k \in 1..Len(wb_formulas.sheetnames) : wb_formulas.sheetnames[k] = fc[1])
    * Len(CoordList)
  + (CHOOSE k \in 1..Len(CoordList) : CoordList[k] = fc[2])

Ordered(list) ==
  \A i, j \in 1..Len(list) : i < j => ListRank(list[i]) < ListRank(list[j])

\* the formula of the outstanding cell fc is a direct reference to the cell gc
RefersTo(fc, gc) ==
  \/ fc[1] = gc[1] /\ fc[3] = "=" \o gc[2]
  \/ fc[3] = "=" \o gc[1] \o "!" \o gc[2]

\* C22: the outstanding list and the list carried to the next pass are in sheet
\* order, then row-major order; within a pass the cells are evaluated in that
\* order, once each; the cells put back are among those that had their turn;
\* a cell that refers to a cell listed before it and resolved by then is
\* resolved in the same pass with the same value.
C22_PassOrderAndVisibility ==
  /\ Ordered(formula_cells)
  /\ Ordered(remaining)
  /\ pc = "cells" =>
        /\ \A k \in 1..Len(formula_cells) :
              evals[<<formula_cells[k][1], formula_cells[k][2]>>]
                = pass_num + (IF k < cell_idx THEN 1 ELSE 0)
        /\ \A k \in 1..Len(remaining) :
              \E j \in 1..Len(formula_cells) : j < cell_idx /\ formula_cells[j] = remaining[k]
        /\ \A i, j \in 1..Len(formula_cells) :
              (i < j /\ j < cell_idx /\ RefersTo(formula_cells[j], formula_cells[i])
                 /\ <<formula_cells[i][1], formula_cells[i][2]>> \in DOMAIN cell_values) =>
                /\ <<formula_cells[j][1], formula_cells[j][2]>> \in DOMAIN cell_values
                /\ cell_values[<<formula_cells[j][1], formula_cells[j][2]>>]
                     = cell_values[<<formula_cells[i][1], formula_cells[i][2]>>]

\* Data!B1 = Lookup!A1, Data!B2 = A1 = 10, Lookup!A1 = Data!B2: Lookup!A1 comes
\* after Data!B2 and is resolved with it in pass 1, Data!B1 in pass 2
C22_Witness ==
  /\ pc = "saved" /\ run_no = 1
  /\ wb_formulas.ws["Lookup"].cell[<<1, 1>>] = StrV("=Data!B2")
  /\ evals[<<"Data", "B2">>] = 1 /\ evals[<<"Lookup", "A1">>] = 1
  /\ evals[<<"Data", "B1">>] = 2
  /\ wb_out.ws["Lookup"].cell[<<1, 1>>] = IntV(10)
  /\ WrittenFor(1) = IntV(10) /\ WrittenFor(4) = IntV(10)

\* the cell of sheet Data named as the third argument of an IF formula
IfValueRef(f) ==
  CASE f \in {"=IF(A1=0,\"\",A1)", "=IF(Z9=0,\"\",A1)", "=IF(A1=\"\", \"\", 'Data'!$A$1)"}
         -> "A1"
    [] f = "=IF(B1=\"\",\"\",B1)" -> "B1"
    [] f = "=IF(C1=\"\",\"\",C1)" -> "C1"
    [] f \in {"=IF(Z9=0,\"\",Z9)", "=IF(A1=0,\"\",Z9)"} -> "Z9"
    [] OTHER -> ""

\* '' when Data!coord has no CellStore value or the value 0 or '', its value
\* otherwise
EmptyOrValueOf(coord) ==
  IF ~InStore(coord) THEN StrV("")
  ELSE IF cell_values[<<"Data", coord>>] \in {IntV(0), FloatV(0), StrV("")} THEN StrV("")
  ELSE cell_values[<<"Data", coord>>]

\* the pass is about to evaluate a formula of the IF shape
AtIf == AtCell /\ IfValueRef(formula_cells[cell_idx][3]) # ""

\* C23: an IF formula is evaluated at most once: the evaluation stores '' when
\* the cell named as its third argument has no CellStore value or the value 0
\* or '', and that cell's value otherwise, whatever its condition reads; the
\* cell leaves the outstanding list.
C23_IfYieldsEmptyOrValue ==
  [][AtIf =>
       /\ evals[<<formula_cells[cell_idx][1], formula_cells[cell_idx][2]>>] = 0
       /\ cell_values' =
            Put(cell_values, <<formula_cells[cell_idx][1], formula_cells[cell_idx][2]>>,
                EmptyOrValueOf(IfValueRef(formula_cells[cell_idx][3])))
       /\ remaining' = remaining]_vars

\* =IF(Z9=0,"",A1) with A1 = "X" is written as "X", and =IF(B1="","",B1) next
\* to it as "X" too
C23_Witness ==
  /\ pc = "saved" /\ run_no = 1 /\ LiteralA1 = StrV("X")
  /\ SlotFormula(1) = "=IF(Z9=0,\"\",A1)" /\ IsNone(CachedOf(1))
  /\ SlotFormula(2) = "=IF(B1=\"\",\"\",B1)"
  /\ evals[<<"Data", "B1">>] = 1 /\ evals[<<"Data", "C1">>] = 1
  /\ WrittenFor(1) = StrV("X") /\ WrittenFor(2) = StrV("X")

\* C24: the letters _num_to_col_letter gives for a column number n >= 1 are
\* converted back to n by _col_letter_to_num, and the number _col_letter_to_num
\* gives for letters A-Z is converted back to the same letters by
\* _num_to_col_letter; A = 1, Z = 26, AA = 27.
C24_ColumnConversionsAreInverse ==
  /\ call.fn = "num_to_col_letter" =>
        /\ call.result.s # ""
        /\ _col_letter_to_num(call.result.s) = call.col_index
        /\ (call.col_index = 1 => call.result.s = "A")
        /\ (call.col_index = 26 => call.result.s = "Z")
        /\ (call.col_index = 27 => call.result.s = "AA")
  /\ call.fn = "col_letter_to_num" =>
        /\ call.result.v >= 1
        /\ _num_to_col_letter(call.result.v) = call.text
        /\ (call.text = "A" => call.result.v = 1)
        /\ (call.text = "Z" => call.result.v = 26)
        /\ (call.text = "AA" => call.result.v = 27)

\* 702 has been converted to ZZ
C24_Witness ==
  call.fn = "num_to_col_letter" /\ call.col_index = 702 /\ call.result = StrV("ZZ")

\* the file is an .xlsm file and _resolve_xlsm_formulas has raised
ResolverRaised ==
  Lower(conv.suffix) = ".xlsm" /\ conv.pc # "start" /\ ~conv.has_resolved

\* C25: after _resolve_xlsm_formulas has raised for an .xlsm file the call goes
\* on with the original file: the resolver's exception is not the one the call
\* ends with, the parsers are given the .xlsm file, the call returns with the
\* text a parser gave, and it raises only when no parser gave a text (or the
\* .md file could not be written).
C25_ResolverFailureIsContained ==
  ResolverRaised =>
    /\ conv.exc # "resolver"
    /\ conv.parse_suffix = conv.suffix
    /\ conv.pc = "returned" => ~IsNone(conv.markdown_text)
    /\ (conv.pc = "raised" /\ conv.exc # "OSError") => IsNone(conv.markdown_text)

\* the resolver raised for book.XLSM, Docling raised, pandas parsed the .XLSM file
\* and the call returned
C25_Witness ==
  /\ ResolverRaised /\ conv.suffix = ".XLSM" /\ ~conv.tmp_created
  /\ conv.pc = "returned" /\ conv.markdown_text = StrV("")

\* the formula cells of the source that carry no cached value: <<sheet, rc>>
UncachedFormulaCells ==
  {cell \in {<<name, rc>> : name \in DOMAIN wb_formulas.ws, rc \in (1..4) \X (1..3)} :
     /\ cell[2] \in DOMAIN wb_formulas.ws[cell[1]].cell
     /\ IsFormula(wb_formulas.ws[cell[1]].cell[cell[2]])
     /\ IsNone(wb_cached.ws[cell[1]].cell[cell[2]])}

\* how often the cell is on the outstanding list
TimesListed(cell) ==
  Cardinality({k \in 1..Len(formula_cells) :
                 /\ formula_cells[k][1] = cell[1]
                 /\ formula_cells[k][2] = CoordNames[cell[2]]})

\* a pass has ended and the next has not begun, or the passes are over
BetweenPasses == pc \in {"pass", "passes_done", "tallied", "saved"}

\* C26: between the passes every formula cell without a cached value either
\* has a CellStore entry and is not on the outstanding list, or has none and
\* is on the list once; the tally equals the number of cells on the list, and
\* the number of formula cells written as empty cells.
C26_ResolvedOrOutstanding ==
  /\ BetweenPasses =>
        /\ \A cell \in UncachedFormulaCells :
              IF <<cell[1], CoordNames[cell[2]]>> \in DOMAIN cell_values
              THEN TimesListed(cell) = 0
              ELSE TimesListed(cell) = 1
        /\ Len(formula_cells) =
              Cardinality({cell \in UncachedFormulaCells :
                             <<cell[1], CoordNames[cell[2]]>> \notin DOMAIN cell_values})
  /\ pc \in {"tallied", "saved"} => unresolved_count = Len(formula_cells)
  /\ pc = "saved" =>
        unresolved_count =
          Cardinality({cell \in {<<name, rc>> : name \in DOMAIN wb_formulas.ws,
                                                rc \in (1..4) \X (1..3)} :
                         /\ cell[2] \in DOMAIN wb_formulas.ws[cell[1]].cell
                         /\ IsFormula(wb_formulas.ws[cell[1]].cell[cell[2]])
                         /\ IsNone(wb_out.ws[cell[1]].cell[cell[2]])})

\* of the reversed chain B1 <- C1 <- A2 <- B2 <- A1 three cells are resolved and
\* one is left: the tally is 1 and one formula cell is written empty
C26_Witness ==
  /\ pc = "saved" /\ run_no = 1
  /\ SlotFormula(1) = "=C1" /\ SlotFormula(2) = "=A2"
  /\ SlotFormula(3) = "=B2" /\ SlotFormula(4) = "=A1"
  /\ unresolved_count = 1 /\ IsNone(WrittenFor(1)) /\ ~IsNone(WrittenFor(2))

\* the run has finished its passes
RunFinished == pc \in {"passes_done", "tallied", "saved"}

\* the formula cells resolved during the passes: <<sheet, rc>>
ResolvedFormulaCells ==
  {cell \in UncachedFormulaCells : <<cell[1], CoordNames[cell[2]]>> \in DOMAIN cell_values}

\* re-evaluating the formula cell against the CellStore as it is gives the value
\* stored for it
StoredValueIsCurrent(cell) ==
  _resolve_formula(wb_formulas.ws[cell[1]].cell[cell[2]].s, cell[1])
    = cell_values[<<cell[1], CoordNames[cell[2]]>>]

\* the formula is a direct reference or a ROUND
DirectOrRound(formula) ==
  \/ Match(ReDirect, 3, PlusPrefix(Strip(formula))).ok
  \/ Match(ReRound, 2, PlusPrefix(Strip(formula))).ok

\* C27 (as claimed): when the run has finished, re-evaluating any formula cell
\* resolved during the passes against the final CellStore returns the value
\* stored for it.
C27_ResolvedValuesAreCurrent ==
  RunFinished => \A cell \in ResolvedFormulaCells : StoredValueIsCurrent(cell)

\* C27 (amended): when the run has finished, re-evaluating any resolved formula
\* cell of direct-reference or ROUND shape against the final CellStore returns
\* the value stored for it.
C27_DirectAndRoundValuesAreCurrent ==
  RunFinished =>
    \A cell \in ResolvedFormulaCells :
      DirectOrRound(wb_formulas.ws[cell[1]].cell[cell[2]].s) => StoredValueIsCurrent(cell)

\* B1 = "=ROUND(C1,0)" is resolved in pass 2, after C1 = "=A1" = 10, and holds 10;
\* re-evaluated it gives 10
C27_Witness ==
  /\ pc = "saved" /\ run_no = 1 /\ LiteralA1 = IntV(10)
  /\ SlotFormula(1) = "=ROUND(C1,0)" /\ IsNone(CachedOf(1)) /\ SlotFormula(2) = "=A1"
  /\ evals[<<"Data", "B1">>] = 2
  /\ InStore("B1") /\ StoredValueIsCurrent(<<"Data", <<1, 2>>>>)

\* the loop has stopped after a pass that resolved no cell
StoppedWithoutProgress == RunFinished /\ newly_resolved = 0

\* C28: when the loop has stopped after a pass that resolved no cell, every
\* cell still on the outstanding list evaluates to none against the final
\* CellStore.
C28_NoProgressIsFixedPoint ==
  StoppedWithoutProgress =>
    \A k \in 1..Len(formula_cells) :
      IsNone(_resolve_formula(formula_cells[k][3], formula_cells[k][1]))

\* B1 = "=B1" and C1 = "=A1": pass 1 resolves C1, pass 2 nothing; the loop stops
\* before the budget is spent with B1 outstanding
C28_Witness ==
  /\ pc = "passes_done" /\ run_no = 1
  /\ SlotFormula(1) = "=B1" /\ SlotFormula(2) = "=A1"
  /\ pass_num + 1 < max_passes /\ newly_resolved = 0
  /\ Outstanding("B1") /\ InStore("C1")

\* the length k of the chain of direct references listed in reverse dependency
\* order and rooted at the literal A1: B2 = "=A1", A2 = "=B2", C1 = "=A2",
\* B1 = "=C1" (cell i of the chain, counted from the root, is slot 5 - i)
ChainLen ==
  IF IsNone(LiteralA1) \/ SlotFormula(4) # "=A1" THEN 0
  ELSE IF SlotFormula(3) # "=B2" THEN 1
  ELSE IF SlotFormula(2) # "=A2" THEN 2
  ELSE IF SlotFormula(1) # "=C1" THEN 3
  ELSE 4

\* the number of passes that have ended
PassesEnded == IF pc = "pass" THEN pass_num ELSE pass_num + 1

Least(a, b) == IF a <= b THEN a ELSE b

\* C29: of a chain of k direct references listed in reverse dependency order
\* and rooted at a literal, cell i (counted from the root) is resolved in pass
\* i and in no other: after p passes exactly min(p, k) cells of the chain are
\* resolved, at the end min(k, 3); these are written with the literal's
\* value, the other k - min(k, 3) cells stay on the list, are counted as
\* unresolved and written as empty cells.
C29_ReverseChainOnePerPass ==
  \A i \in 1..ChainLen :
    /\ (pc = "pass" \/ RunFinished) =>
          /\ InStore(SlotCoords[5 - i]) <=> i <= PassesEnded
          /\ Outstanding(SlotCoords[5 - i]) <=> i > PassesEnded
          /\ evals[<<"Data", SlotCoords[5 - i]>>] = Least(i, PassesEnded)
    /\ RunFinished => PassesEnded >= Least(ChainLen, max_passes)
    /\ pc \in {"tallied", "saved"} =>
          unresolved_count >= ChainLen - Least(ChainLen, max_passes)
    /\ pc = "saved" =>
          WrittenFor(5 - i) = (IF i <= max_passes THEN LiteralA1 ELSE NoneV)

\* the chain of four: B2, A2 and C1 are written as 10, B1 is left unresolved
C29_Witness ==
  /\ pc = "saved" /\ run_no = 1 /\ ChainLen = 4
  /\ WrittenFor(4) = IntV(10) /\ WrittenFor(3) = IntV(10) /\ WrittenFor(2) = IntV(10)
  /\ IsNone(WrittenFor(1)) /\ unresolved_count = 1

\* the slot the direct reference in slot n names, 0 when slot n holds no
\* direct reference to a slot
SlotRef(n) ==
  IF \E m \in 1..Len(Slots) : SlotFormula(n) = "=" \o SlotCoords[m]
  THEN CHOOSE m \in 1..Len(Slots) : SlotFormula(n) = "=" \o SlotCoords[m]
  ELSE 0

RECURSIVE Follow(_, _)
\* the slot reached from slot n by following the references `steps` times
Follow(n, steps) ==
  IF n = 0 \/ steps = 0 THEN n ELSE Follow(SlotRef(n), steps - 1)

\* slot n is on a cycle of direct references none of whose cells carries a
\* cached value
OnCycle(n) ==
  /\ \E steps \in 1..Len(Slots) : Follow(n, steps) = n
  /\ \A steps \in 0..Len(Slots) : IsNone(CachedOf(Follow(n, steps)))

CycleSlots == {n \in 1..Len(Slots) : OnCycle(n)}

\* every formula cell of the source is on such a cycle
OnlyCycles ==
  /\ CycleSlots # {}
  /\ \A name \in DOMAIN wb_formulas.ws : \A rc \in DOMAIN wb_formulas.ws[name].cell :
       IsFormula(wb_formulas.ws[name].cell[rc]) =>
         name = "Data" /\ \E n \in CycleSlots : Slots[n] = rc

\* a cell on a cycle never has a CellStore entry, is evaluated in every pass
\* and put back, is counted as unresolved and written as an empty cell; the
\* literal next to it is written as it is
CycleStaysUnresolved ==
  \A n \in CycleSlots :
    /\ ~InStore(SlotCoords[n])
    /\ (pc = "pass" \/ RunFinished) =>
          /\ Outstanding(SlotCoords[n])
          /\ evals[<<"Data", SlotCoords[n]>>] = PassesEnded
    /\ pc \in {"tallied", "saved"} => unresolved_count >= Cardinality(CycleSlots)
    /\ pc = "saved" => IsNone(WrittenFor(n)) /\ DataOf(wb_out)[<<1, 1>>] = LiteralA1

\* C30 (as claimed): with a cycle of direct references without cached values
\* among the formula cells, the run ends after exactly one pass; no cell of
\* the cycle ever has a CellStore entry, each is written as an empty cell
\* and counted as unresolved.
C30_CycleEndsAfterOnePass ==
  /\ CycleStaysUnresolved
  /\ (CycleSlots # {} /\ RunFinished) => PassesEnded = 1

\* C30 (amended): no cell of such a cycle ever has a CellStore entry, each is
\* evaluated in every pass that runs, written as an empty cell and counted
\* as unresolved; the run ends after exactly one pass when the cells of
\* the cycles are the only formula cells.
C30_CycleNeverResolves ==
  /\ CycleStaysUnresolved
  /\ (OnlyCycles /\ RunFinished) => PassesEnded = 1

\* B1 = "=C1" and C1 = "=B1" next to A1 = 10: one pass, both written empty
C30_Witness ==
  /\ pc = "saved" /\ run_no = 1 /\ LiteralA1 = IntV(10)
  /\ SlotFormula(1) = "=C1" /\ SlotFormula(2) = "=B1" /\ OnlyCycles
  /\ PassesEnded = 1 /\ unresolved_count = 2
  /\ IsNone(WrittenFor(1)) /\ IsNone(WrittenFor(2))

====
